---------------------------- MODULE Spec2Model ----------------------------
(***************************************************************************)
(* A model of the CEX cryptographic library: the Keccak256 digest          *)
(* (sequential sponge and fan-out tree), the ParallelFor fork-join         *)
(* primitive, the CFB / CBC cipher modes and the RHX block cipher.         *)
(*                                                                         *)
(* Bytes are the naturals 0..255.  A vector is a sequence; C++ offsets     *)
(* are 0-based, so the byte at offset o of vector v is v[o + 1].           *)
(***************************************************************************)
EXTENDS Integers, Sequences, FiniteSets, TLC

VARIABLES
    keccak,     \* the Keccak256 instance: its member fields
    fed,        \* number of message bytes the caller has passed to Update
    parts,      \* number of non-empty Update calls that passed them: 0, 1, 2 = several
    fin,        \* what the last Finalize did (leaf states, root state, Output)
    kstat,      \* "ok", or "crashed" once the process has been terminated
    call,       \* the Update call in progress, when followed worker by worker
    stray,      \* workers that addressed a leaf state the vector does not hold
    pf,         \* the ParallelFor call in progress and its futures
    mode,       \* the cipher mode instance (CFB or CBC)
    xf,         \* the parallel decryption in progress
    enc,        \* the encryption made right after Initialize, and what followed
    out,        \* the last completed Transform, or the last refused call
    stream,     \* the stream passed to the mode in successive Transform calls
    rhx,        \* the RHX block cipher instance: its member fields
    rlast,      \* the last call made on the RHX instance and how it ended
    renc,       \* the block encrypted last by the RHX instance, and what followed
    chacha,     \* the ChaCha stream cipher instance and its last Transform
    skein,      \* the Skein1024 digest instance and its last digests
    mac,        \* the MacStream instance and its last ComputeMac call
    isc,        \* the ISCRsg generator, or the refused construction
    kdf,        \* the KDF2Drbg generator and its last call
    rng,        \* the PBR / SecureRandom generator: buffer, index, bytes handed out
    pad         \* the buffer ZeroPad worked on and what the calls returned

kvars == <<keccak, fed, parts, fin, kstat>>
wvars == <<call, stray>>
pfvars == <<pf>>
mvars == <<mode, xf, enc, out, stream>>
rvars == <<rhx, rlast, renc>>
uvars == <<chacha, skein, mac, isc, kdf, rng, pad>>

vars == <<keccak, fed, parts, fin, kstat, call, stray, pf, mode, xf, enc, out,
          stream, rhx, rlast, renc, chacha, skein, mac, isc, kdf, rng, pad>>

(***************************************************************************)
(* Bounds of the model                                                     *)
(***************************************************************************)
\* Sizes are modelled at 1/Scale of their values in the library: the rate
\* BLOCK_SIZE and the digest size DIGEST_SIZE, which Keccak256.cpp uses by
\* name only.
Scale == 8
\* the longest Input one Update call is given
MaxLen == 70
\* the longest message (over all Update calls) hashed by one Finalize
MaxTotal == 86
\* the largest parallel degree requested (degrees are the even numbers)
MaxDegree == 4
\* ParallelBlockSize as a multiple of ParallelMinimumSize
ParallelBlocks == 2
\* the Update calls per message when the workers are followed step by step
MaxCalls == 2
\* ParallelFor: the indexes From and To range over 0..MaxIndex
MaxIndex == 3
\* cipher modes: a block is BlockBits bits wide
BlockBits == 3
\* cipher modes: keys are 0..MaxKey
MaxKey == 1
\* cipher modes: initialization vectors and plaintext patterns are 0..MaxSeed
MaxSeed == 1
\* cipher modes: the longest input of one Transform, in blocks
MaxBlocks == 5
\* cipher modes: processor_count, the number of processor cores
ProcessorCount == 2
\* RHX: a cell of the cipher state is CellBits bits wide (8 at full size)
CellBits == 3

\* cells of a ChaCha keystream block (64 bytes in the program)
CBlock == 2

\* values of one word of the ChaCha counter (2^32 in the program)
CtrWord == 2

\* cells of a Skein1024 block (STATE_BYTES = 128 in the program)
SkBlock == 2

\* block size of the MAC engine behind MacStream, in bytes
MacBlock == 2

\* largest vector passed to MacStream, KDF2Drbg and ZeroPad, in bytes
MaxVector == 5

\* bits of an unsigned int in the model (32 in the program): every size of
\* the model is far below 2^UIntBits, so a difference wraps as it does at 32
UIntBits == 16

(***************************************************************************)
(* Keccak256: constants                                                    *)
(***************************************************************************)
BLOCK_SIZE == 136 \div Scale
DIGEST_SIZE == 32 \div Scale

\* the legal even degrees within the bound
Degrees == {d \in 2..MaxDegree : d % 2 = 0}

\* Byte p of the message the caller hashes.  Values are 2..128, so message
\* bytes differ from the padding bytes 0x00, 0x01 and from each other over
\* any window shorter than 127 bytes.
Msg(p) == (p % 127) + 2

\* Input[InOffset .. InOffset + BLOCK_SIZE): one rate block of the message
InputBlock(InOffset) == [j \in 1..BLOCK_SIZE |-> Msg(InOffset + j - 1)]

Zeros(n) == [j \in 1..n |-> 0]

Min(a, b) == IF a < b THEN a ELSE b

(***************************************************************************)
(* Utility functions                                                       *)
(***************************************************************************)
\* MemUtils::Clear(Buf, Offset, Length): zero Length bytes from Offset
Clear(Buf, Offset, Length) ==
    [j \in 1..Len(Buf) |-> IF j > Offset /\ j <= Offset + Length THEN 0 ELSE Buf[j]]

\* MemUtils::Copy(Input, InOffset, Buf, BufOffset, Length) of message bytes
\* into the buffer; bytes that fall past the end of Buf are not part of it
CopyIn(InOffset, Buf, BufOffset, Length) ==
    [j \in 1..Len(Buf) |->
        IF j > BufOffset /\ j <= BufOffset + Length
        THEN Msg(InOffset + (j - 1 - BufOffset))
        ELSE Buf[j]]

\* byte | 128
Or128(b) == IF b >= 128 THEN b ELSE b + 128

\* one rate block of a buffer, from offset Off (0 past the end of the buffer)
BufBlock(Buf, Off) ==
    [j \in 1..BLOCK_SIZE |-> IF Off + j <= Len(Buf) THEN Buf[Off + j] ELSE 0]

(***************************************************************************)
(* Keccak state.  The 25 lanes are modelled by what determines them: the   *)
(* sequence of rate blocks absorbed since the state was zero, and whether  *)
(* lanes 1, 2, 8, 12, 17 are inverted.                                     *)
(***************************************************************************)
\* Keccak256State::Reset
StateReset == [absorbed |-> <<>>, inverted |-> FALSE]

\* Keccak::Permute(Input, InOffset, BLOCK_SIZE, H): xor the block into the
\* state and permute
Permute(block, H) == [H EXCEPT !.absorbed = Append(@, block)]

\* H[1] = ~H[1]; H[2] = ~H[2]; H[8] = ~H[8]; H[12] = ~H[12]; H[17] = ~H[17]
InvertLanes(H) == [H EXCEPT !.inverted = ~@]

\* a checksum of block[lo..hi], by halves
RECURSIVE BlockSum(_, _, _)
BlockSum(block, lo, hi) ==
    IF lo = hi THEN (block[lo] * lo) % 65521
    ELSE LET mid == (lo + hi) \div 2
         IN  (BlockSum(block, lo, mid) * 3 + BlockSum(block, mid + 1, hi)) % 65521

RECURSIVE LaneMix(_, _)
LaneMix(absorbed, n) ==
    IF n = 0 THEN 17
    ELSE (LaneMix(absorbed, n - 1) * 131 + BlockSum(absorbed[n], 1, BLOCK_SIZE) + 1) % 65521

\* IntUtils::LeULL256ToBlock(H, 0, Out, Off): the 32 bytes of lanes 0..3
LeULL256(H) ==
    LET m == LaneMix(H.absorbed, Len(H.absorbed)) + (IF H.inverted THEN 7 ELSE 0)
    IN  [j \in 1..DIGEST_SIZE |-> (m * j + j * j) % 256]

\* KeccakParams::ToBytes with NodeOffset = i: the tree-parameter header block
TreeHeader(i) ==
    [j \in 1..BLOCK_SIZE |->
        CASE j = 1 -> DIGEST_SIZE
          [] j = 2 -> BLOCK_SIZE
          [] j = 3 -> i
          [] OTHER -> 0]


(***************************************************************************)
(* The Keccak256 instance.  keccak is the record of its members:           *)
(*   m_msgBuffer, m_msgLength, m_dgtState, and of m_parallelProfile the    *)
(*   fields IsParallel and ParallelMaxDegree;                              *)
(*   ub records an out-of-bounds access made by the running call:          *)
(*   0 none, 1 an access past the end of a vector, 2 a copy whose length   *)
(*   has wrapped around (size_t), which no process survives.               *)
(***************************************************************************)
\* ParallelOptions::ParallelMinimumSize: one rate block per leaf
ParallelMinimumSize(k) == k.ParallelMaxDegree * BLOCK_SIZE

\* ParallelOptions::ParallelBlockSize: a multiple of ParallelMinimumSize
ParallelBlockSize(k) == ParallelBlocks * ParallelMinimumSize(k)

MaxUb(a, b) == IF a > b THEN a ELSE b

\* a Reset that forgets to zero the message length
ResetKeepsLength(k) ==
    [k EXCEPT
        !.m_msgBuffer = Zeros(Len(@)),
        !.m_dgtState = [i \in 1..Len(@) |->
            IF k.IsParallel
            THEN Permute(TreeHeader(i - 1), StateReset)
            ELSE StateReset]]

\* Keccak256::Reset
Reset(k) ==
    [k EXCEPT
        !.m_msgBuffer = Zeros(Len(@)),
        !.m_msgLength = 0,
        !.m_dgtState = [i \in 1..Len(@) |->
            IF k.IsParallel
            THEN Permute(TreeHeader(i - 1), StateReset)
            ELSE StateReset]]

\* Keccak256::Keccak256(bool Parallel).  DefDegree is DEF_PRLDEGREE and
\* ProfileParallel the IsParallel value the new ParallelOptions detected.
Construct(Parallel, ProfileParallel, DefDegree) ==
    Reset([m_msgBuffer |-> Zeros(IF Parallel THEN DefDegree * BLOCK_SIZE ELSE BLOCK_SIZE),
           m_msgLength |-> 0,
           m_dgtState |-> [i \in 1..(IF Parallel THEN DefDegree ELSE 1) |-> StateReset],
           IsParallel |-> IF ProfileParallel THEN Parallel ELSE FALSE,
           ParallelMaxDegree |-> DefDegree,
           ub |-> 0])

\* Keccak256::Keccak256(KeccakParams &Params), FanOut being Params.FanOut()
ConstructParams(FanOut, ProfileParallel) ==
    Reset([m_msgBuffer |-> Zeros(IF FanOut > 1 THEN FanOut * BLOCK_SIZE ELSE BLOCK_SIZE),
           m_msgLength |-> 0,
           m_dgtState |-> [i \in 1..(IF FanOut > 1 THEN FanOut ELSE 1) |-> StateReset],
           IsParallel |-> IF FanOut > 1 THEN ProfileParallel ELSE FALSE,
           ParallelMaxDegree |-> FanOut,
           ub |-> 0])

\* Keccak256::HashFinal(Input, InOffset, Length, State) on the buffer Buf:
\* the padded buffer, the finalized state, and whether a write fell past Buf
HashFinal(Buf, InOffset, Length, State) ==
    LET p1 == InOffset + Length
        b1 == IF p1 < Len(Buf) THEN [Buf EXCEPT ![p1 + 1] = 1] ELSE Buf
        p2 == InOffset + BLOCK_SIZE - 1
        b2 == IF p2 < Len(Buf) THEN [b1 EXCEPT ![p2 + 1] = Or128(@)] ELSE b1
    IN  [buf |-> b2,
         state |-> InvertLanes(Permute(BufBlock(b2, InOffset), State)),
         oob |-> p1 >= Len(Buf) \/ p2 >= Len(Buf)]

\* Keccak256::ProcessLeaf(Input, InOffset, State, Length): the do-while loop
RECURSIVE ProcessLeaf(_, _, _, _)
ProcessLeaf(InOffset, State, Length, Stride) ==
    LET s == Permute(InputBlock(InOffset), State)
    IN  IF Length - Stride > 0
        THEN ProcessLeaf(InOffset + Stride, s, Length - Stride, Stride)
        ELSE s

\* A frame of Update(Input, InOffset, Length): the instance and the two
\* by-value parameters the function keeps changing.
Frame(k, InOffset, Length) == [k |-> k, InOffset |-> InOffset, Length |-> Length]

\* a FlushBuffer that empties the filled buffer without moving on in Input
FlushBufferNoAdvance(f) ==
    LET k == f.k
        size == Len(k.m_msgBuffer)
    IN  IF k.m_msgLength # 0 /\ f.Length + k.m_msgLength >= size /\ k.m_msgLength <= size
        THEN LET RMDLEN == size - k.m_msgLength
                 buf == CopyIn(f.InOffset, k.m_msgBuffer, k.m_msgLength, RMDLEN)
             IN  Frame([k EXCEPT
                           !.m_msgBuffer = buf,
                           !.m_dgtState = [i \in 1..Len(@) |->
                               IF i <= k.ParallelMaxDegree
                               THEN Permute(BufBlock(buf, (i - 1) * BLOCK_SIZE), @[i])
                               ELSE @[i]],
                           !.m_msgLength = 0],
                       f.InOffset, f.Length - RMDLEN)
        ELSE f

\* Update, lines 229-245: fill the buffer and empty it into the leaves
FlushBuffer(f) ==
    LET k == f.k
        size == Len(k.m_msgBuffer)
    IN  IF k.m_msgLength # 0 /\ f.Length + k.m_msgLength >= size
        THEN IF k.m_msgLength > size
             THEN Frame([k EXCEPT !.ub = 2], f.InOffset, 0)
             ELSE
             LET RMDLEN == size - k.m_msgLength
                 buf == IF RMDLEN # 0
                        THEN CopyIn(f.InOffset, k.m_msgBuffer, k.m_msgLength, RMDLEN)
                        ELSE k.m_msgBuffer
                 D == k.ParallelMaxDegree
             IN  Frame([k EXCEPT
                           !.m_msgBuffer = buf,
                           !.m_dgtState = [i \in 1..Len(@) |->
                               IF i <= D
                               THEN Permute(BufBlock(buf, (i - 1) * BLOCK_SIZE), @[i])
                               ELSE @[i]],
                           !.m_msgLength = 0,
                           !.ub = MaxUb(@, IF D > Len(k.m_dgtState) THEN 1 ELSE 0)],
                       f.InOffset + RMDLEN, f.Length - RMDLEN)
        ELSE f

\* Update, lines 247-260 and 262-273: stream whole multiples of Unit bytes
\* from the input, leaf i taking every D-th rate block from block i on
ProcessDirect(f, Unit) ==
    LET k == f.k
        D == k.ParallelMaxDegree
    IN  IF f.Length >= Unit
        THEN LET PRCLEN == f.Length - (f.Length % Unit)
             IN  Frame([k EXCEPT
                           !.m_dgtState = [i \in 1..Len(@) |->
                               IF i <= D
                               THEN ProcessLeaf(f.InOffset + (i - 1) * BLOCK_SIZE, @[i],
                                                PRCLEN, ParallelMinimumSize(k))
                               ELSE @[i]],
                           !.ub = MaxUb(@, IF D > Len(k.m_dgtState) THEN 1 ELSE 0)],
                       f.InOffset + PRCLEN, f.Length - PRCLEN)
        ELSE f

\* SeqFlush with the test for a full buffer written > instead of >=
SeqFlushStrict(f) ==
    LET k == f.k
    IN  IF k.m_msgLength # 0 /\ k.m_msgLength + f.Length > BLOCK_SIZE
        THEN LET RMDLEN == BLOCK_SIZE - k.m_msgLength
                 buf == CopyIn(f.InOffset, k.m_msgBuffer, k.m_msgLength, RMDLEN)
             IN  Frame([k EXCEPT
                           !.m_msgBuffer = buf,
                           !.m_dgtState[1] = Permute(BufBlock(buf, 0), @),
                           !.m_msgLength = 0],
                       f.InOffset + RMDLEN, f.Length - RMDLEN)
        ELSE f

\* Update, lines 277-287: sequential mode, fill the buffer and absorb it
SeqFlush(f) ==
    LET k == f.k
    IN  IF k.m_msgLength # 0 /\ k.m_msgLength + f.Length >= BLOCK_SIZE
        THEN LET RMDLEN == BLOCK_SIZE - k.m_msgLength
                 buf == IF RMDLEN # 0
                        THEN CopyIn(f.InOffset, k.m_msgBuffer, k.m_msgLength, RMDLEN)
                        ELSE k.m_msgBuffer
             IN  Frame([k EXCEPT
                           !.m_msgBuffer = buf,
                           !.m_dgtState[1] = Permute(BufBlock(buf, 0), @),
                           !.m_msgLength = 0],
                       f.InOffset + RMDLEN, f.Length - RMDLEN)
        ELSE f

\* Update, lines 290-295: sequential loop through blocks
RECURSIVE SeqLoop(_)
SeqLoop(f) ==
    IF f.Length >= BLOCK_SIZE
    THEN SeqLoop(Frame([f.k EXCEPT !.m_dgtState[1] = Permute(InputBlock(f.InOffset), @)],
                       f.InOffset + BLOCK_SIZE, f.Length - BLOCK_SIZE))
    ELSE f

\* a StoreTail that sets the message length instead of adding to it
StoreTailSetsLength(f) ==
    LET k == f.k
    IN  IF f.Length # 0
        THEN [k EXCEPT
                !.m_msgBuffer = CopyIn(f.InOffset, @, k.m_msgLength, f.Length),
                !.m_msgLength = f.Length]
        ELSE k

\* Update, lines 298-303: store unaligned bytes
StoreTail(f) ==
    LET k == f.k
    IN  IF f.Length # 0
        THEN [k EXCEPT
                !.m_msgBuffer = CopyIn(f.InOffset, @, k.m_msgLength, f.Length),
                !.m_msgLength = @ + f.Length,
                !.ub = MaxUb(@, IF k.m_msgLength + f.Length > Len(k.m_msgBuffer)
                                THEN 1 ELSE 0)]
        ELSE k

\* Keccak256::Update(Input, InOffset, Length), Input being the message
Update(k, InOffset, Length) ==
    IF Length = 0 THEN k
    ELSE IF k.IsParallel
    THEN StoreTail(ProcessDirect(ProcessDirect(FlushBuffer(Frame(k, InOffset, Length)),
                                               ParallelBlockSize(k)),
                                 ParallelMinimumSize(k)))
    ELSE StoreTail(SeqLoop(SeqFlush(Frame(k, InOffset, Length))))

\* Finalize, lines 134-140: finalize the leaves that have bytes in the buffer
RECURSIVE FinalizeLeaves(_, _)
FinalizeLeaves(k, blkCtr) ==
    IF k.m_msgLength = 0 THEN k
    ELSE LET MSGRMD == IF k.m_msgLength >= BLOCK_SIZE THEN BLOCK_SIZE ELSE k.m_msgLength
             has == blkCtr < Len(k.m_dgtState)
             hf == HashFinal(k.m_msgBuffer, blkCtr * BLOCK_SIZE, MSGRMD,
                             IF has THEN k.m_dgtState[blkCtr + 1] ELSE StateReset)
         IN  FinalizeLeaves(
                 [k EXCEPT
                    !.m_msgBuffer = hf.buf,
                    !.m_dgtState = IF has THEN [@ EXCEPT ![blkCtr + 1] = hf.state] ELSE @,
                    !.m_msgLength = IF @ >= MSGRMD THEN @ - MSGRMD ELSE 0,
                    !.ub = MaxUb(@, IF has /\ ~hf.oob THEN 0 ELSE 1)],
                 blkCtr + 1)

\* Finalize, lines 147-151: the leaves' chaining values, written to the
\* start of the message buffer
ChainToBuffer(Buf, States) ==
    [j \in 1..Len(Buf) |->
        IF j <= Len(States) * DIGEST_SIZE
        THEN LeULL256(States[((j - 1) \div DIGEST_SIZE) + 1])[((j - 1) % DIGEST_SIZE) + 1]
        ELSE Buf[j]]

\* Finalize, lines 159-160: the root compresses n full blocks of the buffer
RECURSIVE RootAbsorb(_, _, _)
RootAbsorb(Buf, n, H) ==
    IF n = 0 THEN H
    ELSE Permute(BufBlock(Buf, (n - 1) * BLOCK_SIZE), RootAbsorb(Buf, n - 1, H))

\* Keccak256::Finalize, lines 123-169 (fan-out).  The result holds the
\* instance before the closing Reset (k), the leaf states whose chaining
\* values were copied (leaves), the root state (root) and the Output bytes.
FinalizeTree(k0) ==
    LET size == Len(k0.m_msgBuffer)
        k1 == IF k0.m_msgLength < size
              THEN [k0 EXCEPT !.m_msgBuffer = Clear(@, k0.m_msgLength, size - k0.m_msgLength)]
              ELSE k0
        k2 == IF k1.m_msgLength # 0 THEN FinalizeLeaves(k1, 0) ELSE k1
        buf3 == ChainToBuffer(k2.m_msgBuffer, k2.m_dgtState)
        len3 == k2.m_msgLength + Len(k2.m_dgtState) * DIGEST_SIZE
        BLKRMD == IF len3 > BLOCK_SIZE THEN len3 - (len3 % BLOCK_SIZE) ELSE 0
        root4 == RootAbsorb(buf3, BLKRMD \div BLOCK_SIZE, StateReset)
        hf == HashFinal(buf3, BLKRMD, len3 - BLKRMD, root4)
    IN  [k |-> [k2 EXCEPT !.m_msgBuffer = hf.buf, !.m_msgLength = len3 - BLKRMD,
                          !.ub = MaxUb(@, IF hf.oob THEN 1 ELSE 0)],
         leaves |-> k2.m_dgtState,
         root |-> hf.state,
         Output |-> LeULL256(hf.state)]

\* Keccak256::Finalize, lines 170-177 (sequential)
FinalizeSeq(k0) ==
    LET size == Len(k0.m_msgBuffer)
        buf1 == IF k0.m_msgLength # size
                THEN Clear(k0.m_msgBuffer, k0.m_msgLength, size - k0.m_msgLength)
                ELSE k0.m_msgBuffer
        hf == HashFinal(buf1, 0, k0.m_msgLength, k0.m_dgtState[1])
    IN  [k |-> [k0 EXCEPT !.m_msgBuffer = hf.buf, !.m_dgtState[1] = hf.state,
                          !.ub = MaxUb(@, IF hf.oob THEN 1 ELSE 0)],
         leaves |-> <<hf.state>>,
         root |-> hf.state,
         Output |-> LeULL256(hf.state)]

\* Keccak256::Finalize(Output, OutOffset) up to its closing Reset
Finalize(k) == IF k.IsParallel THEN FinalizeTree(k) ELSE FinalizeSeq(k)

\* a ParallelMaxDegree without the test for zero
DegreeThrowsNoZero(Degree) == Degree > 254 \/ Degree % 2 # 0

\* Keccak256::ParallelMaxDegree(Degree): does it throw
DegreeThrows(Degree) == Degree = 0 \/ Degree > 254 \/ Degree % 2 # 0

\* Keccak256::ParallelMaxDegree(Degree), when it does not throw:
\* m_parallelProfile.SetMaxDegree(Degree); Reset()
SetDegree(k, Degree) == Reset([k EXCEPT !.ParallelMaxDegree = Degree])

(***************************************************************************)
(* The Keccak256 state machine: one action per public function.            *)
(***************************************************************************)
NoFin == [valid |-> FALSE]

\* the parts of the model a specification does not exercise stay as they are
WorkersOff == call = [pc |-> "idle"] /\ stray = {}
ParallelForOff == pf = [pc |-> "idle"]
ModeOff == mode = [state |-> "Uninitialized"] /\ xf = [pc |-> "idle"]
           /\ enc = [valid |-> FALSE] /\ out = [valid |-> FALSE]
           /\ stream = [on |-> FALSE]
RHXOff == rhx = <<>> /\ rlast = [op |-> "none"] /\ renc = [valid |-> FALSE]
ChaChaOff == chacha = <<>>
SkeinOff == skein = <<>>
MacOff == mac = <<>>
ISCOff == isc = <<>>
KDFOff == kdf = <<>>
RngOff == rng = <<>>
PadOff == pad = <<>>
KeccakOff == keccak = <<>> /\ fed = 0 /\ parts = 0 /\ fin = [valid |-> FALSE] /\ kstat = "ok"
CoreOff == KeccakOff /\ WorkersOff /\ ParallelForOff /\ ModeOff /\ RHXOff
UtilOff == ChaChaOff /\ SkeinOff /\ MacOff /\ ISCOff /\ KDFOff /\ RngOff /\ PadOff

\* After construction by Keccak256(Parallel), for every value DEF_PRLDEGREE
\* may have and both answers of the processor detection, or by
\* Keccak256(Params) with a fan-out of 0, 1 or an even degree.
KConstructed(k) ==
    \/ \E Parallel \in BOOLEAN, ProfileParallel \in BOOLEAN, DEF_PRLDEGREE \in Degrees :
          k = Construct(Parallel, ProfileParallel, DEF_PRLDEGREE)
    \/ \E FanOut \in {0, 1} \cup Degrees, ProfileParallel \in BOOLEAN :
          k = ConstructParams(FanOut, ProfileParallel)

\* an instance that runs in sequential mode
KInitSeq ==
    /\ WorkersOff /\ ParallelForOff /\ ModeOff /\ RHXOff /\ UtilOff
    /\ KConstructed(keccak)
    /\ ~keccak.IsParallel
    /\ fed = 0
    /\ parts = 0
    /\ fin = NoFin
    /\ kstat = "ok"

\* an instance that runs in fan-out mode
KInitTree ==
    /\ WorkersOff /\ ParallelForOff /\ ModeOff /\ RHXOff /\ UtilOff
    /\ KConstructed(keccak)
    /\ keccak.IsParallel
    /\ fed = 0
    /\ parts = 0
    /\ fin = NoFin
    /\ kstat = "ok"

\* The end of a call that computed the instance r.  An access past the end
\* of a vector is undefined behaviour: it either goes unnoticed (what was
\* written there is lost) or terminates the process.
CrashChoices(r) == IF r.ub = 1 THEN BOOLEAN ELSE {FALSE}

Commit(r, crash) ==
    IF r.ub = 2 \/ (r.ub = 1 /\ crash)
    THEN /\ kstat' = "crashed"
         /\ keccak' = keccak
    ELSE /\ kstat' = "ok"
         /\ keccak' = [r EXCEPT !.ub = 0]

\* the lengths of the inputs given to Update
Lengths == 0..MaxLen

KUpdate ==
    /\ UNCHANGED <<wvars, pfvars, rvars, uvars, mvars>>
    /\ kstat = "ok"
    /\ \E Length \in Lengths :
          /\ fed + Length <= MaxTotal
          /\ LET r == Update(keccak, fed, Length)
             IN  \E crash \in CrashChoices(r) : Commit(r, crash)
          /\ fed' = fed + Length
          /\ parts' = IF Length = 0 THEN parts ELSE Min(parts + 1, 2)
    /\ fin' = NoFin

KFinalize ==
    /\ UNCHANGED <<wvars, pfvars, rvars, uvars, mvars>>
    /\ kstat = "ok"
    /\ LET f == Finalize(keccak)
           r == [Reset(f.k) EXCEPT !.ub = f.k.ub]
       IN  \E crash \in CrashChoices(r) :
              /\ Commit(r, crash)
              /\ fin' = IF kstat' = "ok"
                        THEN [valid |-> TRUE, before |-> keccak, fed |-> fed,
                              parts |-> parts, leaves |-> f.leaves, root |-> f.root,
                              Output |-> f.Output]
                        ELSE NoFin
    /\ fed' = 0
    /\ parts' = 0

KReset ==
    /\ UNCHANGED <<wvars, pfvars, rvars, uvars, mvars>>
    /\ kstat = "ok"
    /\ keccak' = Reset(keccak)
    /\ fed' = 0
    /\ parts' = 0
    /\ fin' = NoFin
    /\ kstat' = kstat

KParallelMaxDegree ==
    /\ UNCHANGED <<wvars, pfvars, rvars, uvars, mvars>>
    /\ kstat = "ok"
    /\ \E Degree \in 0..(MaxDegree + 1) :
          IF DegreeThrows(Degree)
          THEN UNCHANGED <<keccak, fed, parts>>
          ELSE keccak' = SetDegree(keccak, Degree) /\ fed' = 0 /\ parts' = 0
    /\ fin' = NoFin
    /\ kstat' = kstat

KNext == KUpdate \/ KFinalize \/ KReset \/ KParallelMaxDegree

\* Keccak256 in sequential mode
SpecKeccakSeq == KInitSeq /\ [][KNext]_vars

\* Keccak256 in fan-out mode
SpecKeccakTree == KInitTree /\ [][KNext]_vars

(***************************************************************************)
(* The public calls of Keccak256 on one instance of either mode: Compute,  *)
(* Update, Finalize, Reset and ParallelMaxDegree, with the inputs at the   *)
(* edges of the code's conditions.                                         *)
(***************************************************************************)
\* Keccak256::Compute: Output.resize, Update(Input, 0, Input.size()) and
\* Finalize(Output, 0), which ends with Reset()
Compute(k, Length) ==
    LET Returned(f) == [k |-> [Reset(f.k) EXCEPT !.ub = f.k.ub], Output |-> f.Output]
    IN  Returned(Finalize(Update(k, 0, Length)))

\* the lengths of the inputs of the calls: empty, one byte, one rate block,
\* one byte more, and the size the fan-out sections of Update start at
\* (while it is within the bound on the message)
CallLengths(k) ==
    {n \in {0, 1, BLOCK_SIZE, BLOCK_SIZE + 1, ParallelMinimumSize(k)} :
        n <= MaxTotal * ParallelBlocks}

\* an instance of either mode
KInitAny ==
    /\ WorkersOff /\ ParallelForOff /\ ModeOff /\ RHXOff /\ UtilOff
    /\ KConstructed(keccak)
    /\ fed = 0
    /\ parts = 0
    /\ fin = NoFin
    /\ kstat = "ok"

\* the previous call, when it was a Compute that returned
LastCompute ==
    IF fin.valid /\ "x" \in DOMAIN fin
    THEN [valid |-> TRUE, before |-> fin.before, x |-> fin.x, Output |-> fin.Output]
    ELSE [valid |-> FALSE]

KCompute ==
    /\ UNCHANGED <<wvars, pfvars, rvars, uvars, mvars>>
    /\ kstat = "ok"
    /\ \E Length \in CallLengths(keccak) :
          \E c \in {Compute(keccak, Length)} :
              \E crash \in CrashChoices(c.k) :
                 /\ Commit(c.k, crash)
                 /\ fin' = IF kstat' = "ok"
                           THEN [valid |-> TRUE, before |-> keccak, x |-> Length,
                                 Output |-> c.Output, prev |-> LastCompute]
                           ELSE NoFin
    /\ fed' = 0
    /\ parts' = 0

KUpdateCall ==
    /\ UNCHANGED <<wvars, pfvars, rvars, uvars, mvars>>
    /\ kstat = "ok"
    /\ parts < MaxCalls
    /\ \E Length \in CallLengths(keccak) :
          /\ LET r == Update(keccak, fed, Length)
             IN  \E crash \in CrashChoices(r) : Commit(r, crash)
          /\ fed' = fed + Length
          /\ parts' = IF Length = 0 THEN parts ELSE parts + 1
    /\ fin' = NoFin

\* the largest degree ParallelMaxDegree lets through
DegreeLimit == 254

\* the degrees passed to ParallelMaxDegree: the small ones and those around
\* the limit
DegreeCalls == (0..(MaxDegree + 1)) \cup ((DegreeLimit - 1)..(DegreeLimit + 2))

\* Keccak256::ParallelMaxDegree, with a record of the call
KDegreeCall ==
    /\ UNCHANGED <<wvars, pfvars, rvars, uvars, mvars>>
    /\ kstat = "ok"
    /\ \E Degree \in DegreeCalls :
          /\ IF DegreeThrows(Degree)
             THEN UNCHANGED <<keccak, fed, parts>>
             ELSE keccak' = SetDegree(keccak, Degree) /\ fed' = 0 /\ parts' = 0
          /\ fin' = [valid |-> FALSE, Degree |-> Degree,
                     threw |-> DegreeThrows(Degree), before |-> keccak]
    /\ kstat' = kstat

KCallNext == KCompute \/ KUpdateCall \/ KFinalize \/ KReset \/ KDegreeCall

\* Keccak256, every public call, either mode
SpecKeccakCalls == KInitAny /\ [][KCallNext]_vars

(***************************************************************************)
(* Keccak256::Update in fan-out mode, followed worker by worker.  Each of  *)
(* the three parallel sections of Update forks ParallelMaxDegree workers   *)
(* with ParallelFor; a worker step is one Keccak::Permute into             *)
(* m_dgtState[i], and the workers' steps interleave freely.                *)
(***************************************************************************)
\* The forking sections of Update: 1 empties the message buffer (lines
\* 229-245), 2 streams multiples of ParallelBlockSize (247-260), 3 streams
\* multiples of ParallelMinimumSize (262-273).
LastSection == 3

\* the unit whose multiples a streaming section takes from the input
SectionUnit(k, sect) ==
    IF sect = 2 THEN ParallelBlockSize(k) ELSE ParallelMinimumSize(k)

\* the if-condition that guards section sect (lines 229, 247, 262)
SectionRuns(k, sect, Length) ==
    IF sect = 1
    THEN k.m_msgLength # 0 /\ Length + k.m_msgLength >= Len(k.m_msgBuffer)
    ELSE Length >= SectionUnit(k, sect)

\* the bytes a section consumes from the input: RMDLEN, PRCLEN or PRMLEN
SectionLength(k, sect, Length) ==
    IF sect = 1
    THEN Len(k.m_msgBuffer) - k.m_msgLength
    ELSE Length - (Length % SectionUnit(k, sect))

\* the number of Permute calls each worker of the section makes: one in
\* the buffer flush, the iterations of ProcessLeaf's do-while otherwise
WorkerBlocks(k, sect, Length) ==
    IF sect = 1 THEN 1
    ELSE SectionLength(k, sect, Length) \div ParallelMinimumSize(k)

\* where the call goes after section sect
AfterSection(c, InOffset, Length) ==
    [pc |-> IF c.sect = LastSection THEN "store" ELSE "enter",
     sect |-> IF c.sect = LastSection THEN c.sect ELSE c.sect + 1,
     InOffset |-> InOffset, Length |-> Length,
     work |-> <<>>, total |-> 0, start |-> <<>>]

\* the input lengths that make each section of Update run
ChunkLengths(k) ==
    {1, BLOCK_SIZE, ParallelMinimumSize(k) - 1, ParallelMinimumSize(k),
     ParallelBlockSize(k), ParallelBlockSize(k) + ParallelMinimumSize(k) + 1}

WInit ==
    /\ ParallelForOff /\ ModeOff /\ RHXOff /\ UtilOff
    /\ KConstructed(keccak)
    /\ keccak.IsParallel
    /\ fed = 0
    /\ parts = 0
    /\ fin = NoFin
    /\ kstat = "ok"
    /\ call = [pc |-> "idle"]
    /\ stray = {}

\* Update(Input, InOffset, Length) is called with Length # 0
WUpdate ==
    /\ UNCHANGED <<pfvars, rvars, uvars, mvars, fin, keccak, kstat, stray>>
    /\ kstat = "ok"
    /\ call.pc = "idle"
    /\ parts < MaxCalls
    /\ parts' = parts + 1
    /\ \E Length \in ChunkLengths(keccak) :
          /\ fed + Length <= MaxTotal * ParallelBlocks
          /\ call' = [pc |-> "enter", sect |-> 1, InOffset |-> fed, Length |-> Length,
                      work |-> <<>>, total |-> 0, start |-> <<>>]
          /\ fed' = fed + Length

\* the guard of the next section is false: the section is skipped
WSkip ==
    /\ UNCHANGED <<pfvars, rvars, uvars, mvars, parts, fin, keccak, kstat, stray, fed>>
    /\ kstat = "ok"
    /\ call.pc = "enter"
    /\ ~SectionRuns(keccak, call.sect, call.Length)
    /\ call' = AfterSection(call, call.InOffset, call.Length)

\* the guard holds: section 1 fills the buffer, then ParallelFor forks the
\* workers 0 .. ParallelMaxDegree - 1
WFork ==
    /\ UNCHANGED <<pfvars, rvars, uvars, mvars, parts, fin, stray, fed>>
    /\ kstat = "ok"
    /\ call.pc = "enter"
    /\ SectionRuns(keccak, call.sect, call.Length)
    /\ IF call.sect = 1 /\ keccak.m_msgLength > Len(keccak.m_msgBuffer)
       THEN /\ kstat' = "crashed"
            /\ UNCHANGED <<keccak, call>>
       ELSE LET RMDLEN == SectionLength(keccak, 1, call.Length)
                n == WorkerBlocks(keccak, call.sect, call.Length)
            IN  /\ keccak' = IF call.sect = 1 /\ RMDLEN # 0
                             THEN [keccak EXCEPT !.m_msgBuffer =
                                      CopyIn(call.InOffset, @, keccak.m_msgLength, RMDLEN)]
                             ELSE keccak
                /\ call' = [call EXCEPT
                               !.pc = "run",
                               !.work = [i \in 1..keccak.ParallelMaxDegree |-> n],
                               !.total = n,
                               !.start = keccak]
                /\ kstat' = kstat

\* the block worker i absorbs next
WorkerBlock(i) ==
    IF call.sect = 1
    THEN BufBlock(keccak.m_msgBuffer, i * BLOCK_SIZE)
    ELSE InputBlock(call.InOffset + (i * BLOCK_SIZE)
                    + (call.total - call.work[i + 1]) * ParallelMinimumSize(keccak))

\* worker i runs one Keccak::Permute(..., m_dgtState[i].H).  operator[] is
\* unchecked: an index the vector does not hold is undefined behaviour,
\* the write lands outside the leaf states or the process is terminated.
WWorker(i) ==
    /\ UNCHANGED <<pfvars, rvars, uvars, mvars, parts, fin, fed>>
    /\ kstat = "ok"
    /\ call.pc = "run"
    /\ i + 1 \in DOMAIN call.work
    /\ call.work[i + 1] > 0
    /\ call' = [call EXCEPT !.work[i + 1] = @ - 1]
    /\ IF i < Len(keccak.m_dgtState)
       THEN /\ keccak' = [keccak EXCEPT !.m_dgtState[i + 1] = Permute(WorkerBlock(i), @)]
            /\ UNCHANGED <<stray, kstat>>
       ELSE /\ stray' = stray \cup {i}
            /\ keccak' = keccak
            /\ \E crash \in BOOLEAN : kstat' = IF crash THEN "crashed" ELSE "ok"

WWorkers == \E i \in 0..(MaxDegree - 1) : WWorker(i)

\* ParallelFor returns: every worker is done; the section's epilogue
WJoin ==
    /\ UNCHANGED <<pfvars, rvars, uvars, mvars, parts, fin, stray, fed, kstat>>
    /\ kstat = "ok"
    /\ call.pc = "run"
    /\ \A n \in DOMAIN call.work : call.work[n] = 0
    /\ LET used == SectionLength(call.start, call.sect, call.Length)
       IN  /\ keccak' = IF call.sect = 1 THEN [keccak EXCEPT !.m_msgLength = 0] ELSE keccak
           /\ call' = AfterSection(call, call.InOffset + used, call.Length - used)

\* lines 298-303: store unaligned bytes, and Update returns
WStore ==
    /\ UNCHANGED <<pfvars, rvars, uvars, mvars, parts, fin, stray, fed>>
    /\ kstat = "ok"
    /\ call.pc = "store"
    /\ LET r == StoreTail(Frame(keccak, call.InOffset, call.Length))
       IN  \E crash \in CrashChoices(r) : Commit(r, crash)
    /\ call' = [pc |-> "idle"]

WParallelMaxDegree ==
    /\ UNCHANGED <<pfvars, rvars, uvars, mvars, fin, kstat, call>>
    /\ kstat = "ok"
    /\ call.pc = "idle"
    /\ \E Degree \in 0..(MaxDegree + 1) :
          IF DegreeThrows(Degree)
          THEN UNCHANGED <<keccak, fed, parts, stray>>
          ELSE keccak' = SetDegree(keccak, Degree) /\ fed' = 0 /\ parts' = 0 /\ stray' = {}

WReset ==
    /\ UNCHANGED <<pfvars, rvars, uvars, mvars, fin, kstat, call>>
    /\ parts' = 0
    /\ kstat = "ok"
    /\ call.pc = "idle"
    /\ keccak' = Reset(keccak)
    /\ fed' = 0
    /\ stray' = {}

WNext == WUpdate \/ WSkip \/ WFork \/ WWorkers \/ WJoin \/ WStore
         \/ WParallelMaxDegree \/ WReset

\* Keccak256 in fan-out mode with the workers of Update interleaved
SpecKeccakWorkers == WInit /\ [][WNext]_vars

(***************************************************************************)
(* Keccak256: properties                                                   *)
(***************************************************************************)
\* the bytes of a sequence of rate blocks
Flat(blocks) ==
    [j \in 1..(Len(blocks) * BLOCK_SIZE) |->
        blocks[((j - 1) \div BLOCK_SIZE) + 1][((j - 1) % BLOCK_SIZE) + 1]]

\* bytes followed by sponge padding: 0x01, zero bytes up to the end of the
\* rate block, 0x80 in the last rate byte
SpongePad(bytes) ==
    LET n == Len(bytes)
        total == ((n \div BLOCK_SIZE) + 1) * BLOCK_SIZE
    IN  [j \in 1..total |->
            IF j <= n THEN bytes[j]
            ELSE (IF j = n + 1 THEN 1 ELSE 0) + (IF j = total THEN 128 ELSE 0)]

\* the hash of the first n message bytes by one Update and Finalize on the
\* instance k after a Reset
OneShot(k, n) == Finalize(Update(Reset(k), 0, n))

\* C3: in sequential mode, however the message was split over Update calls,
\* the state has absorbed the same blocks and holds the same partial block
\* as after one Update of the whole message, and Finalize absorbs the same
\* blocks and returns the same digest as Update(A||B); Finalize.
C3_SplitSameDigest ==
    (kstat = "ok" /\ ~keccak.IsParallel) =>
        /\ LET one == Update(Reset(keccak), 0, fed)
           IN  /\ keccak.m_dgtState = one.m_dgtState
               /\ keccak.m_msgLength = one.m_msgLength
               /\ SubSeq(keccak.m_msgBuffer, 1, keccak.m_msgLength)
                    = SubSeq(one.m_msgBuffer, 1, one.m_msgLength)
        /\ fin.valid =>
              LET one == OneShot(keccak, fin.fed)
              IN  /\ fin.root.absorbed = one.root.absorbed
                  /\ fin.root = one.root
                  /\ fin.Output = one.Output

\* C3 witness: a message longer than one rate block, not a whole number of
\* blocks, passed in several parts and finalized
C3_Witness ==
    /\ fin.valid
    /\ ~fin.before.IsParallel
    /\ fin.parts = 2
    /\ fin.fed > BLOCK_SIZE
    /\ fin.fed % BLOCK_SIZE # 0
    /\ Len(fin.root.absorbed) = (fin.fed \div BLOCK_SIZE) + 1

\* the blocks leaf i absorbed during the last Finalize
LeafFinalBlocks(i) ==
    SubSeq(fin.leaves[i].absorbed,
           Len(fin.before.m_dgtState[i].absorbed) + 1,
           Len(fin.leaves[i].absorbed))

\* the bytes leaf i held in the buffer when the last Finalize began
LeafResidue(i) ==
    LET lo == (i - 1) * BLOCK_SIZE
        hi == Min(i * BLOCK_SIZE, fin.before.m_msgLength)
    IN  [j \in 1..(IF hi > lo THEN hi - lo ELSE 0) |-> fin.before.m_msgBuffer[lo + j]]

\* the chaining values of the leaves the last Finalize copied, concatenated
ChainValues ==
    [j \in 1..(Len(fin.leaves) * DIGEST_SIZE) |->
        LeULL256(fin.leaves[((j - 1) \div DIGEST_SIZE) + 1])[((j - 1) % DIGEST_SIZE) + 1]]

\* C4: in fan-out mode Finalize finalizes every one of the D leaf states
\* (one padding block absorbed, lanes inverted) before its chaining value is
\* copied, whatever the message length.
C4_EveryLeafFinalized ==
    (fin.valid /\ fin.before.IsParallel) =>
        \A i \in 1..fin.before.ParallelMaxDegree :
            /\ i <= Len(fin.leaves)
            /\ fin.leaves[i].inverted
            /\ Len(LeafFinalBlocks(i)) = 1

\* C5: the root state absorbs exactly the concatenated leaf chaining values
\* followed by the sponge padding, and no other buffer content.
C5_RootAbsorbsChainOnly ==
    (fin.valid /\ fin.before.IsParallel) =>
        Flat(fin.root.absorbed) = SpongePad(ChainValues)

\* C6: a leaf holding residual bytes is finalized as the sequential mode
\* would finalize them: it absorbs its residual bytes followed by the
\* sponge padding, so a full block is absorbed unaltered.
C6_LeafPaddingAsSequential ==
    (fin.valid /\ fin.before.IsParallel) =>
        \A i \in 1..Len(fin.leaves) :
            LeafResidue(i) # <<>> =>
                Flat(LeafFinalBlocks(i)) = SpongePad(LeafResidue(i))

\* C7: a fan-out instance always has as many leaf states as its degree D
\* and a buffer of D rate blocks.
C7_LeafCountIsDegree ==
    (kstat = "ok" /\ keccak.IsParallel) =>
        /\ Len(keccak.m_dgtState) = keccak.ParallelMaxDegree
        /\ Len(keccak.m_msgBuffer) = keccak.ParallelMaxDegree * BLOCK_SIZE

\* block number pos (from 0) of those routed to leaf i (from 1) of D
RoutedBlock(D, i, pos) == InputBlock((pos * D + i - 1) * BLOCK_SIZE)

\* C8: the k-th complete rate block of the stream (k from 0) is absorbed by
\* leaf k mod D, each leaf absorbing its blocks in increasing order of k:
\* after its header block a leaf holds the blocks k = i, i + D, i + 2D, ...
\* and, once the message is finalized, every complete block has been
\* absorbed so.
C8_BlockKToLeafKModD ==
    /\ (kstat = "ok" /\ keccak.IsParallel) =>
          \A i \in 1..Len(keccak.m_dgtState) :
              \A pos \in 2..Len(keccak.m_dgtState[i].absorbed) :
                  /\ i <= keccak.ParallelMaxDegree
                  /\ keccak.m_dgtState[i].absorbed[pos]
                       = RoutedBlock(keccak.ParallelMaxDegree, i, pos - 2)
    /\ (fin.valid /\ fin.before.IsParallel) =>
          \A k \in 0..((fin.fed \div BLOCK_SIZE) - 1) :
              LET D == fin.before.ParallelMaxDegree
                  i == (k % D) + 1
                  pos == (k \div D) + 2
              IN  /\ i <= Len(fin.leaves)
                  /\ pos <= Len(fin.leaves[i].absorbed)
                  /\ fin.leaves[i].absorbed[pos] = RoutedBlock(D, i, pos - 2)

\* the leaf states the section in progress gives when its workers run one
\* after another in index order
IndexOrderStates ==
    LET f == Frame(call.start, call.InOffset, call.Length)
    IN  IF call.sect = 1
        THEN FlushBuffer(f).k.m_dgtState
        ELSE ProcessDirect(f, SectionUnit(call.start, call.sect)).k.m_dgtState

\* C9: within one Update call every worker addresses a leaf state of its
\* own, and when the workers have all finished, in whatever order their
\* steps were taken, the leaf states are those of the index-order run.
C9_WorkersOwnLeafState ==
    /\ stray = {}
    /\ (call.pc = "run" /\ \A n \in DOMAIN call.work : call.work[n] = 0)
          => keccak.m_dgtState = IndexOrderStates

(***************************************************************************)
(* ParallelUtils::ParallelFor(From, To, F), the std::async branch.         *)
(* A future is [index, policy, state]: std::async with the default launch  *)
(* policy starts the task on a thread of its own ("async") or defers it to *)
(* the first wait ("deferred"), as the implementation chooses.  invoked[i] *)
(* and completed[i] count the calls of F(i) begun and ended.               *)
(***************************************************************************)
Indexes == 0..MaxIndex

NoneRun == [i \in Indexes |-> 0]

\* the condition of the spawn loop, line 33: for (i = From; i < To; ++i)
SpawnLoopRuns(i, To) == i < To

\* a wait loop that leaves the last future out
WaitLoopShort(i, futures) == i + 1 < Len(futures)

\* the condition of the wait loop, line 42: for (i = 0; i < futures.size(); ++i)
WaitLoopRuns(i, futures) == i < Len(futures)

PFInit ==
    /\ WorkersOff /\ ModeOff /\ RHXOff /\ UtilOff
    /\ keccak = <<>> /\ fed = 0 /\ parts = 0 /\ fin = NoFin /\ kstat = "ok"
    /\ pf = [pc |-> "idle"]

\* the caller enters ParallelFor(From, To, F); futures is empty
PFCall ==
    /\ UNCHANGED <<kvars, wvars, mvars, rvars, uvars>>
    /\ pf.pc \in {"idle", "returned"}
    /\ \E From \in Indexes, To \in Indexes :
          pf' = [pc |-> "spawn", From |-> From, To |-> To, i |-> From,
                 futures |-> <<>>, invoked |-> NoneRun, completed |-> NoneRun]

\* lines 33-40: one iteration of the spawn loop, std::async([i, F]{ F(i); })
PFSpawn ==
    /\ UNCHANGED <<kvars, wvars, mvars, rvars, uvars>>
    /\ pf.pc = "spawn"
    /\ SpawnLoopRuns(pf.i, pf.To)
    /\ \E policy \in {"async", "deferred"} :
          pf' = [pf EXCEPT
                    !.futures = Append(@, [index |-> pf.i, policy |-> policy,
                                           state |-> "pending"]),
                    !.i = @ + 1]

\* the spawn loop ends; the wait loop starts at i = 0
PFSpawned ==
    /\ UNCHANGED <<kvars, wvars, mvars, rvars, uvars>>
    /\ pf.pc = "spawn"
    /\ ~SpawnLoopRuns(pf.i, pf.To)
    /\ pf' = [pf EXCEPT !.pc = "wait", !.i = 0]

\* the thread of an async task begins F(index)
PFTaskBegin(n) ==
    /\ UNCHANGED <<kvars, wvars, mvars, rvars, uvars>>
    /\ pf.pc \in {"spawn", "wait", "returned"}
    /\ n \in DOMAIN pf.futures
    /\ pf.futures[n].policy = "async"
    /\ pf.futures[n].state = "pending"
    /\ pf' = [pf EXCEPT !.futures[n].state = "running",
                        !.invoked[pf.futures[n].index] = @ + 1]

\* F(index) returns on the task's thread; the future becomes ready
PFTaskEnd(n) ==
    /\ UNCHANGED <<kvars, wvars, mvars, rvars, uvars>>
    /\ pf.pc \in {"spawn", "wait", "returned"}
    /\ n \in DOMAIN pf.futures
    /\ pf.futures[n].state = "running"
    /\ pf' = [pf EXCEPT !.futures[n].state = "ready",
                        !.completed[pf.futures[n].index] = @ + 1]

PFTaskBegins == \E n \in 1..(MaxIndex + 1) : PFTaskBegin(n)

PFTaskEnds == \E n \in 1..(MaxIndex + 1) : PFTaskEnd(n)

\* lines 42-43: futures[i].wait().  A deferred task runs F now, on the
\* calling thread; the wait for an async task returns once it is ready.
PFWait ==
    /\ UNCHANGED <<kvars, wvars, mvars, rvars, uvars>>
    /\ pf.pc = "wait"
    /\ WaitLoopRuns(pf.i, pf.futures)
    /\ LET fut == pf.futures[pf.i + 1]
       IN  IF fut.policy = "deferred" /\ fut.state = "pending"
           THEN pf' = [pf EXCEPT !.futures[pf.i + 1].state = "ready",
                                 !.invoked[fut.index] = @ + 1,
                                 !.completed[fut.index] = @ + 1,
                                 !.i = @ + 1]
           ELSE /\ fut.state = "ready"
                /\ pf' = [pf EXCEPT !.i = @ + 1]

\* line 45 and the return: the wait loop is over.  futures.clear() destroys
\* the futures; the destructor of a future from std::async blocks until its
\* task has finished, a deferred task never waited for is dropped unrun.
PFReturn ==
    /\ UNCHANGED <<kvars, wvars, mvars, rvars, uvars>>
    /\ pf.pc = "wait"
    /\ ~WaitLoopRuns(pf.i, pf.futures)
    /\ \A n \in DOMAIN pf.futures :
          pf.futures[n].policy = "async" => pf.futures[n].state = "ready"
    /\ pf' = [pf EXCEPT !.pc = "returned", !.futures = <<>>]

PFNext == PFCall \/ PFSpawn \/ PFSpawned \/ PFTaskBegins \/ PFTaskEnds \/ PFWait \/ PFReturn

SpecParallelFor == PFInit /\ [][PFNext]_vars

\* C10: F(i) is never invoked twice, and once ParallelFor has returned
\* F(i) has been invoked and has completed exactly once for every i in
\* [From, To) and not at all for any other i: nothing is skipped and
\* nothing is still running.
C10_AllInvokedOnceBeforeReturn ==
    /\ pf.pc # "idle" => \A i \in Indexes : pf.invoked[i] <= 1
    /\ pf.pc = "returned" =>
          \A i \in Indexes :
              /\ pf.invoked[i] = (IF pf.From <= i /\ i < pf.To THEN 1 ELSE 0)
              /\ pf.completed[i] = pf.invoked[i]

\* C10 witness: a call over at least two indexes has returned
C10_Witness ==
    /\ pf.pc = "returned"
    /\ pf.To >= pf.From + 2
    /\ \A i \in pf.From..(pf.To - 1) : pf.completed[i] = 1

(***************************************************************************)
(* The cipher modes CFB and CBC.  A block is a number below 2^BlockBits.   *)
(* The block cipher is a keyed permutation of the blocks that is not       *)
(* affine over XOR; lengths and offsets are counted in blocks.             *)
(***************************************************************************)
BlockCount == 2 ^ BlockBits

Blocks == 0..(BlockCount - 1)

Keys == 0..MaxKey

\* parallel_max_degree: the number of segment workers
ThreadCount == mode.degree

\* the automatic thread count: the largest even number of cores
DefaultDegree == IF ProcessorCount < 2 THEN 1 ELSE ProcessorCount - (ProcessorCount % 2)

\* bitwise exclusive or of two blocks
Xor(a, b) ==
    LET bit(x, n) == (x \div (2 ^ n)) % 2
        term(n) == ((bit(a, n) + bit(b, n)) % 2) * (2 ^ n)
        sum[n \in 0..BlockBits] == IF n = 0 THEN 0 ELSE sum[n - 1] + term(n - 1)
    IN  sum[BlockBits]

\* E_K: the block cipher's encryption under key K
E(K, x) == ((2 * K + 3) * x + K + 1) % BlockCount

\* D_K: its inverse
D(K, y) == CHOOSE x \in Blocks : E(K, x) = y

\* parallel_min_size = thread_count * W, in blocks
ModeMinimumSize == ThreadCount

\* parallel_block_size, a multiple of parallel_min_size
ModeBlockSize == 2 * ModeMinimumSize

\* one block through the mode with register R: the output block
\*   CFB encrypt  C = P XOR E_K(R)      CFB decrypt  P = C XOR E_K(R)
\*   CBC encrypt  C = E_K(P XOR R)      CBC decrypt  P = D_K(C) XOR R
ModeBlock(kind, dir, K, R, x) ==
    IF kind = "CFB" THEN Xor(x, E(K, R))
    ELSE IF dir = "Encrypt" THEN E(K, Xor(x, R))
    ELSE Xor(D(K, x), R)

\* the register after the block: the ciphertext block, in both directions
NextRegister(dir, x, y) == IF dir = "Encrypt" THEN y ELSE x

\* serial processing, block by block, from register R
RECURSIVE Serial(_, _, _, _, _)
Serial(kind, dir, K, R, Input) ==
    IF Input = <<>> THEN [Output |-> <<>>, R |-> R]
    ELSE LET x == Head(Input)
             y == ModeBlock(kind, dir, K, R, x)
             rest == Serial(kind, dir, K, NextRegister(dir, x, y), Tail(Input))
         IN  [Output |-> <<y>> \o rest.Output, R |-> rest.R]

\* a trigger that wants more than parallel_block_size
EngagesAbove(m, Length) ==
    m.IsParallel /\ m.state = "Decrypt" /\ Length > ModeBlockSize

\* the trigger of parallel processing
Engages(m, Length) ==
    m.IsParallel /\ m.state = "Decrypt" /\ Length >= ModeBlockSize

\* the blocks processed in parallel: the largest multiple of the parallel
\* block size, split in ThreadCount contiguous segments
ParallelLength(Length) == Length - (Length % ModeBlockSize)

SegmentBlocks(Length) == ParallelLength(Length) \div ThreadCount

\* a segment that takes the previous segment's initial register (V for all)
SegmentRegisterStale(Input, R, t) == R

\* the register segment t starts from: the instance's register for segment
\* 0, the last ciphertext block of segment t - 1 otherwise
SegmentRegister(Input, R, t) ==
    IF t = 0 THEN R ELSE Input[t * SegmentBlocks(Len(Input))]

\* a parallel decryption that leaves the register as it found it
JoinRegisterKept(Input, n, R) == R

\* the register after the segments of a parallel decryption: the last
\* ciphertext block of the n blocks they processed
JoinRegister(Input, n, R) == Input[n]

\* Initialize that keeps the register where the earlier transforms left it
RegisterKept(m, V) == IF m.state = "Uninitialized" THEN V ELSE m.R

\* the register after Initialize with IV V: reset to V
RegisterAtInitialize(m, V) == V

\* the plaintexts: n blocks of pattern seed
Plain(seed, n) == [j \in 1..n |-> (seed * 3 + j * j + j * seed) % BlockCount]

Plains == {Plain(seed, n) : seed \in 0..MaxSeed, n \in 1..MaxBlocks}

Unset == 0 - 1

\* the instance after construction: not initialized, the automatic thread
\* count, the parallel flag as the processor detection or the caller set it
Constructed(m) ==
    \E kind \in {"CFB", "CBC"}, IsParallel \in BOOLEAN :
       m = [kind |-> kind, state |-> "Uninitialized", K |-> 0, V |-> 0, R |-> 0,
            IsParallel |-> IsParallel, degree |-> DefaultDegree,
            fresh |-> FALSE, again |-> FALSE]

MInit ==
    /\ WorkersOff /\ ParallelForOff /\ RHXOff /\ UtilOff
    /\ keccak = <<>> /\ fed = 0 /\ parts = 0 /\ fin = NoFin /\ kstat = "ok"
    /\ Constructed(mode)
    /\ xf = [pc |-> "idle"]
    /\ enc = [valid |-> FALSE]
    /\ out = [valid |-> FALSE]
    /\ stream = [on |-> FALSE]

\* the stream a caller passes in successive Transform calls: its blocks S,
\* the number pos of blocks passed since Initialize, the output Result
\* collected from the calls, and whether one of the calls ran the parallel
\* path
StreamBlocks == 2 * MaxBlocks - 1

StreamStart(S) ==
    [on |-> TRUE, S |-> S, pos |-> 0, Result |-> <<>>, par |-> FALSE]

StreamAfter(Input, Output, parallel) ==
    IF stream.on
    THEN [stream EXCEPT !.pos = @ + Len(Input), !.Result = @ \o Output,
                        !.par = @ \/ parallel]
    ELSE stream

MInitStream ==
    /\ WorkersOff /\ ParallelForOff /\ RHXOff /\ UtilOff
    /\ keccak = <<>> /\ fed = 0 /\ parts = 0 /\ fin = NoFin /\ kstat = "ok"
    /\ Constructed(mode)
    /\ xf = [pc |-> "idle"]
    /\ enc = [valid |-> FALSE]
    /\ out = [valid |-> FALSE]
    /\ \E seed \in 0..MaxSeed : stream = StreamStart(Plain(seed, StreamBlocks))

\* a readiness test that forgets the destroyed instance
ReadyOnceInitialized(m) == m.state # "Uninitialized"

\* is the instance ready to transform: initialized and not destroyed
Ready(m) == m.state \in {"Encrypt", "Decrypt"}

\* enc follows the calls Initialize(Encrypt, K, V); Transform(P) -> C;
\* Initialize(Decrypt, K, V); Transform(C) -> P' made one after another:
\* its stage is "encrypted", "initialized", then "decrypted".  Any other
\* call ends the sequence.
Encrypted(m, P, C) ==
    [valid |-> TRUE, K |-> m.K, V |-> m.V, again |-> m.again, P |-> P, C |-> C,
     stage |-> "encrypted"]

AfterInitialize(Encryption, K, V) ==
    IF enc.valid /\ enc.stage = "encrypted" /\ ~Encryption /\ K = enc.K /\ V = enc.V
    THEN [enc EXCEPT !.stage = "initialized"]
    ELSE [valid |-> FALSE]

AfterDecrypt(Input) ==
    IF enc.valid /\ enc.stage = "initialized" /\ Input = enc.C
    THEN [enc EXCEPT !.stage = "decrypted"]
    ELSE [valid |-> FALSE]

\* Initialize(Encryption, KeyParams).  fresh: no Transform since; again:
\* the instance had transformed data before this Initialize.
MInitialize ==
    /\ UNCHANGED <<kvars, wvars, pfvars, rvars, uvars, xf>>
    /\ xf.pc = "idle"
    /\ mode.state # "Destroyed"
    /\ stream' = IF stream.on THEN StreamStart(stream.S) ELSE stream
    /\ \E Encryption \in BOOLEAN, K \in Keys, V \in 0..MaxSeed :
          /\ mode' = [mode EXCEPT
                         !.state = IF Encryption THEN "Encrypt" ELSE "Decrypt",
                         !.K = K,
                         !.V = V,
                         !.R = RegisterAtInitialize(mode, V),
                         !.fresh = TRUE,
                         !.again = (mode.state # "Uninitialized" /\ ~mode.fresh)]
          /\ enc' = AfterInitialize(Encryption, K, V)
    /\ out' = [valid |-> FALSE]

\* the record of a completed Transform
Done(m, Input, Output, parallel) ==
    [valid |-> TRUE, dir |-> m.state, K |-> m.K, R |-> m.R,
     fresh |-> m.fresh, parallel |-> parallel, Input |-> Input, Output |-> Output,
     IsParallel |-> m.IsParallel]

\* the inputs a Transform is given: a plaintext to encrypt; to decrypt, the
\* ciphertext just produced or any block pattern; of a stream, its next blocks
Inputs ==
    IF stream.on
    THEN {SubSeq(stream.S, stream.pos + 1, stream.pos + n) :
             n \in 1..Min(MaxBlocks, Len(stream.S) - stream.pos)}
    ELSE IF mode.state = "Encrypt" THEN Plains
    ELSE (IF enc.valid THEN {enc.C} ELSE {}) \cup Plains

\* Transform(Input, ..., Length) on the serial path
MTransform ==
    /\ UNCHANGED <<kvars, wvars, pfvars, rvars, uvars, xf>>
    /\ xf.pc = "idle"
    /\ Ready(mode)
    /\ \E Input \in Inputs :
          /\ ~Engages(mode, Len(Input))
          /\ LET r == Serial(mode.kind, mode.state, mode.K, mode.R, Input)
             IN  /\ mode' = [mode EXCEPT !.R = r.R, !.fresh = FALSE]
                 /\ out' = Done(mode, Input, r.Output, FALSE)
                 /\ stream' = StreamAfter(Input, r.Output, FALSE)
                 /\ enc' = IF mode.state = "Encrypt"
                           THEN (IF mode.fresh THEN Encrypted(mode, Input, r.Output)
                                 ELSE [valid |-> FALSE])
                           ELSE AfterDecrypt(Input)

\* Transform on the parallel path: the input is split in segments and the
\* segment workers are started
MDecryptParallel ==
    /\ UNCHANGED <<kvars, wvars, pfvars, rvars, uvars, mode, stream>>
    /\ enc' = IF enc.valid /\ enc.stage = "initialized" THEN enc ELSE [valid |-> FALSE]
    /\ xf.pc = "idle"
    /\ Ready(mode)
    /\ \E Input \in Inputs :
          /\ Engages(mode, Len(Input))
          /\ xf' = [pc |-> "segments",
                    Input |-> Input,
                    Output |-> [j \in 1..Len(Input) |-> Unset],
                    next |-> [t \in 1..ThreadCount |-> 0],
                    reg |-> [t \in 1..ThreadCount |->
                                SegmentRegister(Input, mode.R, t - 1)]]
    /\ out' = [valid |-> FALSE]

\* the worker of segment t decrypts its next block
MSegmentStep(t) ==
    /\ UNCHANGED <<kvars, wvars, pfvars, rvars, uvars, mode, enc, out, stream>>
    /\ xf.pc = "segments"
    /\ xf.next[t + 1] < SegmentBlocks(Len(xf.Input))
    /\ LET j == t * SegmentBlocks(Len(xf.Input)) + xf.next[t + 1] + 1
           x == xf.Input[j]
       IN  xf' = [xf EXCEPT
                     !.Output[j] = ModeBlock(mode.kind, "Decrypt", mode.K, xf.reg[t + 1], x),
                     !.reg[t + 1] = x,
                     !.next[t + 1] = @ + 1]

MSegmentSteps == \E t \in 0..(ThreadCount - 1) : MSegmentStep(t)

\* the workers have joined: the register takes the last ciphertext block
\* of the parallel part, the blocks left over are processed serially, and
\* Transform returns
MDecryptJoin ==
    /\ UNCHANGED <<kvars, wvars, pfvars, rvars, uvars>>
    /\ xf.pc = "segments"
    /\ \A t \in 1..ThreadCount : xf.next[t] = SegmentBlocks(Len(xf.Input))
    /\ LET n == ParallelLength(Len(xf.Input))
           r == Serial(mode.kind, "Decrypt", mode.K, JoinRegister(xf.Input, n, mode.R),
                       SubSeq(xf.Input, n + 1, Len(xf.Input)))
       IN  /\ mode' = [mode EXCEPT !.R = r.R, !.fresh = FALSE]
           /\ out' = Done(mode, xf.Input, SubSeq(xf.Output, 1, n) \o r.Output, TRUE)
           /\ stream' = StreamAfter(xf.Input, SubSeq(xf.Output, 1, n) \o r.Output, TRUE)
    /\ enc' = AfterDecrypt(xf.Input)
    /\ xf' = [pc |-> "idle"]

\* Transform on an instance that is not initialized or is destroyed: it
\* fails with NotInitialized
MTransformFails ==
    /\ UNCHANGED <<kvars, wvars, pfvars, rvars, uvars, xf, mode, stream>>
    /\ xf.pc = "idle"
    /\ ~Ready(mode)
    /\ \E Input \in Inputs :
          out' = [valid |-> FALSE, error |-> "NotInitialized", before |-> mode,
                  Input |-> Input, Output |-> <<>>]
    /\ enc' = [valid |-> FALSE]

\* Destroy: releases the key, the vector and the register
MDestroy ==
    /\ UNCHANGED <<kvars, wvars, pfvars, rvars, uvars, xf, stream>>
    /\ xf.pc = "idle"
    /\ mode.state # "Destroyed"
    /\ mode' = [mode EXCEPT !.state = "Destroyed", !.K = 0, !.V = 0, !.R = 0,
                            !.fresh = FALSE, !.again = FALSE]
    /\ enc' = [valid |-> FALSE]
    /\ out' = [valid |-> FALSE]

\* a ParallelMaxDegree that lets every even degree through
ModeDegreeThrowsOdd(Degree) == Degree > 1 /\ Degree % 2 # 0

\* ParallelMaxDegree(Degree): is the degree refused
ModeDegreeThrows(Degree) ==
    (Degree > 1 /\ Degree % 2 # 0) \/ Degree > ProcessorCount

\* ParallelMaxDegree(Degree) that is not refused: 0 sets the thread count
\* automatically, 1 sets IsParallel to false, an even degree is taken
SetModeDegree(m, Degree) ==
    IF Degree = 0 THEN [m EXCEPT !.degree = DefaultDegree]
    ELSE IF Degree = 1 THEN [m EXCEPT !.IsParallel = FALSE]
    ELSE [m EXCEPT !.degree = Degree]

MParallelMaxDegree ==
    /\ UNCHANGED <<kvars, wvars, pfvars, rvars, uvars, xf, stream>>
    /\ xf.pc = "idle"
    /\ mode.state # "Destroyed"
    /\ \E Degree \in 0..(ProcessorCount + 2) :
          /\ mode' = IF ModeDegreeThrows(Degree) THEN mode
                     ELSE SetModeDegree(mode, Degree)
          /\ out' = [valid |-> FALSE,
                     error |-> IF ModeDegreeThrows(Degree) THEN "InvalidDegree" ELSE "none",
                     Degree |-> Degree, before |-> mode]
    /\ enc' = [valid |-> FALSE]

MNext ==
    \/ MInitialize \/ MTransform \/ MDecryptParallel \/ MSegmentSteps \/ MDecryptJoin
    \/ MTransformFails \/ MDestroy \/ MParallelMaxDegree

\* a cipher mode instance given independent inputs
SpecMode == MInit /\ [][MNext]_vars

\* a cipher mode instance given one stream in successive calls
SpecModeStream == MInitStream /\ [][MNext]_vars

\* C1: whenever a Transform that ran the segment workers returns, in
\* whatever order their steps were taken, its output is block for block
\* that of serial decryption of the same input from the same register.
C1_ParallelDecryptIsSerial ==
    (out.valid /\ out.parallel) =>
        out.Output = Serial(mode.kind, "Decrypt", out.K, out.R, out.Input).Output

\* C1 witness: a parallel decryption from register V of an input that has
\* segments of several blocks and blocks left over has returned
C1_Witness ==
    /\ out.valid
    /\ out.parallel
    /\ out.fresh
    /\ SegmentBlocks(Len(out.Input)) >= 2
    /\ Len(out.Input) > ParallelLength(Len(out.Input))

\* C2: on one instance, after Initialize(Encrypt, K, V); Transform(P) -> C;
\* Initialize(Decrypt, K, V); Transform(C) -> P' the output P' is P.
C2_RoundTrip ==
    (enc.valid /\ enc.stage = "decrypted") =>
        (out.valid /\ out.dir = "Decrypt" /\ out.Input = enc.C /\ out.Output = enc.P)

\* C2 witness: the round trip has been made, with a parallel decryption, by
\* an instance whose register earlier transforms had advanced
C2_Witness ==
    /\ enc.valid
    /\ enc.stage = "decrypted"
    /\ enc.again
    /\ out.valid
    /\ out.parallel
    /\ out.Output = enc.P

(***************************************************************************)
(* RHX: Rijndael with the standard key schedule for keys of up to 64 bytes *)
(* and an HKDF key schedule above.  Key, block and round counts are the    *)
(* code's; a cell of the state is CellBits wide and the key schedules are  *)
(* stand-ins that keep what the rounds depend on: the key, the path, the   *)
(* round and the cell.                                                     *)
(***************************************************************************)
BLOCK16 == 16
BLOCK32 == 32
LEGAL_KEYS == 14
MAX_ROUNDS == 38
MAX_STDKEY == 64
MIN_ROUNDS == 10
ROUNDS22 == 22

\* the digests that can drive the key schedule: output size H (GetIkmSize)
\* and block size S (GetSaltSize), in bytes
KdfDigests ==
    {[name |-> "SHA512", H |-> 64, S |-> 128],
     [name |-> "Keccak256", H |-> 32, S |-> 136],
     [name |-> "Skein256", H |-> 32, S |-> 32],
     [name |-> "Skein1024", H |-> 128, S |-> 128]}

\* the constructor's checks of BlockSize and Rounds
RHXConstructThrows(BlockSize, Rounds) ==
    \/ (BlockSize # BLOCK16 /\ BlockSize # BLOCK32)
    \/ (Rounds < MIN_ROUNDS \/ Rounds > MAX_ROUNDS \/ Rounds % 2 > 0)

\* a constructor that looks at the rounds before the block size
RHXConstructErrorRoundsFirst(BlockSize, Rounds) ==
    IF Rounds < MIN_ROUNDS \/ Rounds > MAX_ROUNDS \/ Rounds % 2 > 0
    THEN "Invalid rounds size"
    ELSE IF BlockSize # BLOCK16 /\ BlockSize # BLOCK32
    THEN "Invalid block size" ELSE "none"

\* the exception the constructor throws: the two checks in their order
RHXConstructError(BlockSize, Rounds) ==
    IF BlockSize # BLOCK16 /\ BlockSize # BLOCK32
    THEN "Invalid block size"
    ELSE IF Rounds < MIN_ROUNDS \/ Rounds > MAX_ROUNDS \/ Rounds % 2 > 0
    THEN "Invalid rounds size" ELSE "none"

\* RHX::RHX(BlockSize, Rounds, KdfEngineType), when it does not throw:
\* _legalKeySizes[0..3] are the standard lengths, _legalKeySizes[i] for
\* i = 4 .. LEGAL_KEYS - 1 is dgtblock * (i - 3) + _ikmSize
RHXConstruct(BlockSize, Rounds, digest) ==
    [_blockSize |-> BlockSize,
     _dfnRounds |-> Rounds,
     _ikmSize |-> digest.H,
     _kdfEngineType |-> digest,
     _isEncryption |-> FALSE,
     _isInitialized |-> FALSE,
     _legalKeySizes |-> [j \in 1..LEGAL_KEYS |->
         IF j = 1 THEN 16 ELSE IF j = 2 THEN 24 ELSE IF j = 3 THEN 32
         ELSE IF j = 4 THEN 64 ELSE digest.S * ((j - 1) - 3) + digest.H],
     _expKey |-> [path |-> "none"]]

\* an Initialize that takes the key sizes as a range: any length from the
\* first to the last of LegalKeySizes()
KeyInRange(r, Length) ==
    /\ Length >= r._legalKeySizes[1]
    /\ Length <= r._legalKeySizes[LEGAL_KEYS]

\* is a key of Length bytes one of LegalKeySizes()
KeyLegal(r, Length) == \E j \in 1..LEGAL_KEYS : r._legalKeySizes[j] = Length

\* an ExpandKey that takes the HKDF path for every length that is H + n * S
ExpandPathByList(r, Length) ==
    IF \E j \in 5..LEGAL_KEYS : r._legalKeySizes[j] = Length
    THEN "hkdf" ELSE "standard"

\* ExpandKey: the standard key expansion for keys of up to MAX_STDKEY bytes,
\* the HKDF expansion above
ExpandPath(r, Length) == IF Length > MAX_STDKEY THEN "hkdf" ELSE "standard"

\* the rounds of the standard path: 10, 12, 14, 22 for 16, 24, 32, 64 bytes
StandardRounds(Length) ==
    IF Length = 16 THEN 10 ELSE IF Length = 24 THEN 12
    ELSE IF Length = 32 THEN 14 ELSE ROUNDS22

\* the values of a cell
CellCount == 2 ^ CellBits

Cells == 0..(CellCount - 1)

\* exclusive or of two numbers of at most n bits
RECURSIVE BitXor(_, _, _)
BitXor(a, b, n) ==
    IF n = 0 THEN 0
    ELSE ((a + b) % 2) + 2 * BitXor(a \div 2, b \div 2, n - 1)

CellXor == [a \in Cells |-> [b \in Cells |-> BitXor(a, b, CellBits)]]

\* the field polynomial of GF(2^CellBits); x^8 + x^4 + x^3 + x + 1 at 8 bits
FieldPolynomial ==
    IF CellBits = 2 THEN 7 ELSE IF CellBits = 3 THEN 11
    ELSE IF CellBits = 4 THEN 19 ELSE 283

\* multiplication by x in the field
XTime(a) ==
    IF 2 * a >= CellCount THEN BitXor(2 * a, FieldPolynomial, CellBits + 1) ELSE 2 * a

\* field multiplication of the cell a by the polynomial c
RECURSIVE FieldMul(_, _)
FieldMul(a, c) ==
    IF c = 0 THEN 0
    ELSE CellXor[IF c % 2 = 1 THEN a ELSE 0][FieldMul(XTime(a), c \div 2)]

\* the multiplications MixColumns and InvMixColumns use
Mul == [c \in {1, 2, 3, 9, 11, 13, 14} |-> [a \in Cells |-> FieldMul(a, c)]]

\* SubBytes: the fixed substitution, and its inverse
SBox == [a \in Cells |-> (5 * a + 3) % CellCount]

InvSBox == [b \in Cells |-> CHOOSE a \in Cells : SBox[a] = b]

\* ShiftRows: row i is rotated left by i for 16-byte blocks, by the table
\* 0, 1, 3, 4 for 32-byte blocks
ShiftOffset(W, row) ==
    IF W = BLOCK16 THEN row ELSE (IF row = 0 THEN 0 ELSE IF row = 1 THEN 1
                                  ELSE IF row = 2 THEN 3 ELSE 4)

\* the expanded key: cell j of the round key of round i, for the key given to
\* Initialize (its length, its bytes) and the path ExpandKey took
RoundKey(ek, i, j) ==
    (ek.seed * (j + 1) + 3 * i + i * j + ek.Length
        + (IF ek.path = "hkdf" THEN 5 ELSE 0)) % CellCount

\* a decryption that takes the round keys in the order of encryption
DecryptKeyForward(rounds, i) == i

\* the round key the i-th step of decryption uses: the schedule reversed
DecryptKey(rounds, i) == rounds - i

\* Encrypt16 / Encrypt32: the state holds W cells in columns of 4
EncryptBlock(r, x) ==
    LET W == r._blockSize
        Nb == W \div 4
        ek == r._expKey
        Add(st, i) == SubSeq([j \in 1..W |-> CellXor[st[j]][RoundKey(ek, i, j)]], 1, W)
        Sub(st) == SubSeq([j \in 1..W |-> SBox[st[j]]], 1, W)
        Shift(st) == SubSeq([j \in 1..W |->
            LET row == (j - 1) % 4
                col == (j - 1) \div 4
            IN  st[4 * ((col + ShiftOffset(W, row)) % Nb) + row + 1]], 1, W)
        Mix(st) == SubSeq([j \in 1..W |->
            LET row == (j - 1) % 4
                base == 4 * ((j - 1) \div 4)
                c(k) == st[base + ((row + k) % 4) + 1]
            IN  CellXor[CellXor[Mul[2][c(0)]][Mul[3][c(1)]]][CellXor[c(2)][c(3)]]], 1, W)
        Round(st, i) ==
            IF i = 0 THEN Add(st, 0)
            ELSE IF i < ek.rounds THEN Add(Mix(Shift(Sub(st))), i)
            ELSE Add(Shift(Sub(st)), i)
        RECURSIVE Rounds(_, _, _)
        Rounds(st, lo, hi) ==
            IF lo = hi THEN Round(st, lo)
            ELSE LET mid == (lo + hi) \div 2
                     half == Rounds(st, lo, mid)
                 IN  IF Len(half) = W THEN Rounds(half, mid + 1, hi) ELSE half
    IN  Rounds(x, 0, ek.rounds)

\* Decrypt16 / Decrypt32: the inverse rounds
DecryptBlock(r, y) ==
    LET W == r._blockSize
        Nb == W \div 4
        ek == r._expKey
        Add(st, i) == SubSeq([j \in 1..W |->
            CellXor[st[j]][RoundKey(ek, DecryptKey(ek.rounds, i), j)]], 1, W)
        InvSub(st) == SubSeq([j \in 1..W |-> InvSBox[st[j]]], 1, W)
        InvShift(st) == SubSeq([j \in 1..W |->
            LET row == (j - 1) % 4
                col == (j - 1) \div 4
            IN  st[4 * ((col + Nb - (ShiftOffset(W, row) % Nb)) % Nb) + row + 1]], 1, W)
        InvMix(st) == SubSeq([j \in 1..W |->
            LET row == (j - 1) % 4
                base == 4 * ((j - 1) \div 4)
                c(k) == st[base + ((row + k) % 4) + 1]
            IN  CellXor[CellXor[Mul[14][c(0)]][Mul[11][c(1)]]]
                       [CellXor[Mul[13][c(2)]][Mul[9][c(3)]]]], 1, W)
        Round(st, i) ==
            IF i = 0 THEN InvSub(InvShift(Add(st, 0)))
            ELSE IF i < ek.rounds THEN InvSub(InvShift(InvMix(Add(st, i))))
            ELSE Add(st, i)
        RECURSIVE Rounds(_, _, _)
        Rounds(st, lo, hi) ==
            IF lo = hi THEN Round(st, lo)
            ELSE LET mid == (lo + hi) \div 2
                     half == Rounds(st, lo, mid)
                 IN  IF Len(half) = W THEN Rounds(half, mid + 1, hi) ELSE half
    IN  Rounds(y, 0, ek.rounds)

\* the rounds the instances are constructed with: the least, the default
\* and the most
RoundChoices == {MIN_ROUNDS, ROUNDS22, MAX_ROUNDS}

\* After construction by RHX(BlockSize, Rounds, KdfEngineType)
RInit ==
    /\ WorkersOff /\ ParallelForOff /\ ModeOff /\ UtilOff
    /\ keccak = <<>> /\ fed = 0 /\ parts = 0 /\ fin = NoFin /\ kstat = "ok"
    /\ \E BlockSize \in {BLOCK16, BLOCK32}, Rounds \in RoundChoices,
          digest \in KdfDigests :
          /\ ~RHXConstructThrows(BlockSize, Rounds)
          /\ rhx = RHXConstruct(BlockSize, Rounds, digest)
    /\ rlast = [op |-> "none"]
    /\ renc = [valid |-> FALSE]

\* the key lengths given to Initialize: the standard ones, the first and the
\* last extended one, and their neighbours that are not in the list
KeyLengths(r) ==
    LET H == r._kdfEngineType.H
        S == r._kdfEngineType.S
    IN  {15, 16, 24, 32, 64, 65, H + S, H + 10 * S, H + 11 * S}

\* the expanded key of a key of Length bytes with the byte pattern seed
Expanded(r, Length, seed) ==
    LET path == ExpandPath(r, Length)
    IN  [path |-> path, Length |-> Length, seed |-> seed,
         rounds |-> IF path = "standard" THEN StandardRounds(Length) ELSE r._dfnRounds]

\* Initialize(Encryption, KeyParam): a key whose length is not one of
\* LegalKeySizes() is refused with InvalidKey
RInitialize ==
    /\ UNCHANGED <<kvars, wvars, pfvars, mvars, uvars>>
    /\ \E Encryption \in BOOLEAN, Length \in KeyLengths(rhx), seed \in 0..MaxKey :
          IF ~KeyLegal(rhx, Length)
          THEN /\ rhx' = rhx
               /\ rlast' = [op |-> "Initialize", Length |-> Length,
                            error |-> "InvalidKey", before |-> rhx]
               /\ renc' = [valid |-> FALSE]
          ELSE /\ rhx' = [rhx EXCEPT
                             !._isEncryption = Encryption,
                             !._isInitialized = TRUE,
                             !._expKey = Expanded(rhx, Length, seed),
                             !._dfnRounds = Expanded(rhx, Length, seed).rounds]
               /\ rlast' = [op |-> "Initialize", Length |-> Length,
                            error |-> "none"]
               /\ renc' = IF /\ renc.valid /\ renc.stage = "encrypted" /\ ~Encryption
                             /\ Length = renc.Length /\ seed = renc.seed
                          THEN [renc EXCEPT !.stage = "initialized"]
                          ELSE [valid |-> FALSE]

\* the blocks given to Transform
RPlain(seed, W) == [j \in 1..W |-> (seed * 5 + j * j + 1) % CellCount]

RInputs ==
    {RPlain(seed, rhx._blockSize) : seed \in 0..MaxSeed}
        \cup (IF ~rhx._isEncryption /\ renc.valid THEN {renc.C} ELSE {})

\* Transform(Input, Output): Encrypt16 / Encrypt32 or Decrypt16 / Decrypt32
RTransform ==
    /\ UNCHANGED <<kvars, wvars, pfvars, mvars, uvars, rhx>>
    /\ rhx._isInitialized
    /\ \E Input \in RInputs :
          LET Output == IF rhx._isEncryption THEN EncryptBlock(rhx, Input)
                        ELSE DecryptBlock(rhx, Input)
          IN  /\ rlast' = [op |-> "Transform", Input |-> Input, Output |-> Output]
              /\ renc' = IF rhx._isEncryption
                         THEN [valid |-> TRUE, stage |-> "encrypted", P |-> Input,
                               C |-> Output, Length |-> rhx._expKey.Length,
                               seed |-> rhx._expKey.seed]
                         ELSE IF renc.valid /\ renc.stage = "initialized"
                                 /\ Input = renc.C
                         THEN [renc EXCEPT !.stage = "decrypted"]
                         ELSE [valid |-> FALSE]

RNext == RInitialize \/ RTransform

\* before any instance exists
RNoInstance ==
    /\ WorkersOff /\ ParallelForOff /\ ModeOff /\ RHXOff /\ UtilOff
    /\ keccak = <<>> /\ fed = 0 /\ parts = 0 /\ fin = NoFin /\ kstat = "ok"

\* the block sizes and rounds passed to the constructor
BlockSizeCalls == {0, 8, BLOCK16, 24, BLOCK32, 33, 64}

RoundsCalls == 0..(MAX_ROUNDS + 3)

\* RHX::RHX(BlockSize, Rounds, KdfEngineType): the instance when it returns,
\* none when it throws
RConstructCall ==
    /\ UNCHANGED <<kvars, wvars, pfvars, mvars, uvars, renc>>
    /\ \E BlockSize \in BlockSizeCalls, Rounds \in RoundsCalls, digest \in KdfDigests :
          LET error == RHXConstructError(BlockSize, Rounds)
          IN  /\ rhx' = IF error = "none" THEN RHXConstruct(BlockSize, Rounds, digest)
                        ELSE <<>>
              /\ rlast' = [op |-> "Construct", BlockSize |-> BlockSize,
                           Rounds |-> Rounds, error |-> error]

SpecRHXConstruct == RNoInstance /\ [][RConstructCall]_vars

SpecRHX == RInit /\ [][RNext]_vars

\* the ciphertext of a completed Transform: its output when encrypting, its
\* input when decrypting
Ciphertext(o) == IF o.dir = "Encrypt" THEN o.Output ELSE o.Input

\* C12: after every Transform of at least one block the register is the
\* last ciphertext block of the call (the output when encrypting, the input
\* when decrypting, for CFB and for CBC, after a parallel decryption too);
\* every call starts from the register the call before it left (V for the
\* first), and the outputs of the calls made on the parts of a stream, put
\* together, are the output of one serial pass over the stream so far.
C12_RegisterFollowsStream ==
    (stream.on /\ out.valid) =>
        LET C == Ciphertext(out)
            before == stream.pos - Len(out.Input)
            sofar == SubSeq(stream.S, 1, stream.pos)
            whole == Serial(mode.kind, out.dir, out.K, mode.V, sofar)
            cipher == IF out.dir = "Encrypt" THEN stream.Result ELSE sofar
        IN  /\ mode.R = C[Len(C)]
            /\ out.R = IF before = 0 THEN mode.V ELSE cipher[before]
            /\ stream.Result = whole.Output
            /\ mode.R = whole.R

\* a stream decrypted in several calls: an earlier call ran the parallel
\* path, the last one ran serially from the register left to it
C12_Witness ==
    /\ stream.on
    /\ out.valid
    /\ out.dir = "Decrypt"
    /\ ~out.parallel
    /\ stream.par
    /\ stream.pos > Len(out.Input)

Failed(o, e) == "error" \in DOMAIN o /\ o.error = e

IsResetState(k) ==
    /\ k.m_msgLength = 0
    /\ k.m_msgBuffer = Zeros(Len(k.m_msgBuffer))
    /\ \A i \in 1..Len(k.m_dgtState) :
          k.m_dgtState[i] = IF k.IsParallel
                            THEN Permute(TreeHeader(i - 1), StateReset)
                            ELSE StateReset

\* C11: on an instance in the reset state, a Compute(x) that returns gives
\* the digest that Update(x, 0, |x|) followed by Finalize gives, it leaves
\* the instance in the reset state (buffer cleared, message length 0, leaf
\* states initialized again), and a second Compute(x) right after it
\* returns the same digest.
C11_ComputeIsUpdateFinalize ==
    (fin.valid /\ "x" \in DOMAIN fin /\ IsResetState(fin.before)) =>
        /\ fin.Output = Finalize(Update(fin.before, 0, fin.x)).Output
        /\ IsResetState(keccak)
        /\ keccak = fin.before
        /\ (fin.prev.valid /\ IsResetState(fin.prev.before) /\ fin.prev.x = fin.x)
              => fin.prev.Output = fin.Output

\* two Compute calls in a row on the same input of more than one rate block,
\* the first one on an instance in the reset state
C11_Witness ==
    /\ fin.valid /\ "x" \in DOMAIN fin
    /\ IsResetState(fin.before)
    /\ fin.prev.valid /\ IsResetState(fin.prev.before)
    /\ fin.prev.x = fin.x
    /\ fin.x > BLOCK_SIZE

(***************************************************************************)
(* Keccak256::ParallelMaxDegree                                            *)
(***************************************************************************)
\* C16: ParallelMaxDegree(d) succeeds exactly when d is even and
\* 2 <= d <= 254; for d = 0, every odd d and every d > 254 it throws and
\* leaves the degree, the leaf states and the buffer as they were.
C16_DegreeEvenUpTo254 ==
    ("Degree" \in DOMAIN fin) =>
        /\ ~fin.threw <=> (fin.Degree % 2 = 0 /\ 2 <= fin.Degree /\ fin.Degree <= 254)
        /\ fin.threw =>
              /\ keccak.ParallelMaxDegree = fin.before.ParallelMaxDegree
              /\ keccak.m_dgtState = fin.before.m_dgtState
              /\ keccak.m_msgBuffer = fin.before.m_msgBuffer
              /\ keccak = fin.before
        /\ ~fin.threw => keccak.ParallelMaxDegree = fin.Degree

\* degree 254 was accepted, then 256 refused while a message was buffered
C16_Witness ==
    /\ "Degree" \in DOMAIN fin
    /\ fin.Degree = 256
    /\ fin.threw
    /\ fin.before.ParallelMaxDegree = 254
    /\ fin.before.m_msgLength > 0

(***************************************************************************)
(* Keccak256 in sequential mode: the message buffer                        *)
(***************************************************************************)
\* C17: in sequential mode, after every Update, Finalize and Reset the
\* message length M is within 0 .. BLOCK_SIZE - 1 (0 .. 135 at full size),
\* the buffer starts with the last M bytes of the input, the bytes before
\* them are the ones absorbed, and Finalize wrote its 0x01 inside the rate
\* block: what it absorbed is the message with the sponge padding.
C17_BufferHoldsUnabsorbedTail ==
    LET M == keccak.m_msgLength
    IN  /\ 0 <= M /\ M <= BLOCK_SIZE - 1
        /\ M <= fed
        /\ \A j \in 1..M : keccak.m_msgBuffer[j] = Msg(fed - M + j - 1)
        /\ Flat(keccak.m_dgtState[1].absorbed) = [j \in 1..(fed - M) |-> Msg(j - 1)]
        /\ fin.valid =>
              /\ fin.before.m_msgLength + 1 <= BLOCK_SIZE
              /\ Flat(fin.root.absorbed) = SpongePad([j \in 1..fin.fed |-> Msg(j - 1)])
              /\ Flat(fin.root.absorbed)[fin.fed + 1] \in {1, 129}

\* a Finalize on a buffer one byte short of a rate block, filled by several
\* Update calls after a block was absorbed
C17_Witness ==
    /\ fin.valid
    /\ fin.before.m_msgLength = BLOCK_SIZE - 1
    /\ fin.parts = 2
    /\ fin.fed > BLOCK_SIZE

(***************************************************************************)
(* The ChaCha stream cipher                                                *)
(***************************************************************************)
\* Increment(Counter): the two counter words, the low one first, with carry
Increment(Counter) ==
    IF Counter[1] + 1 = CtrWord
    THEN <<0, (Counter[2] + 1) % CtrWord>>
    ELSE <<Counter[1] + 1, Counter[2]>>

\* an Increase that drops the carry into the high word
IncreaseNoCarry(Counter, Size) == <<(Counter[1] + Size) % CtrWord, Counter[2]>>

\* Increase(Counter, Size, Buffer): Buffer is Counter moved on by Size blocks
Increase(Counter, Size) ==
    <<(Counter[1] + Size) % CtrWord,
      (Counter[2] + ((Counter[1] + Size) \div CtrWord)) % CtrWord>>

\* ChaChaCore: the keystream block of a key and a counter value
ChaChaCore(key, Counter) ==
    [j \in 1..CBlock |->
        (31 * key + 17 * Counter[1] + 53 * Counter[2] + 7 * j
            + 11 * Counter[1] * Counter[2] * j + 5) % 256]

\* the counter after n blocks have been generated one by one
RECURSIVE CounterAfter(_, _)
CounterAfter(Counter, n) ==
    IF n = 0 THEN Counter ELSE CounterAfter(Increment(Counter), n - 1)

\* Generate(Size, Counter, Output, OutOffset): Size bytes of keystream, block
\* by block, the counter incremented after each block (a last partial block
\* included)
Generate(key, Size, Counter) ==
    [ks |-> [n \in 1..Size |->
                ChaChaCore(key, CounterAfter(Counter, (n - 1) \div CBlock))
                    [((n - 1) % CBlock) + 1]],
     Counter |-> CounterAfter(Counter, (Size + CBlock - 1) \div CBlock)]

ByteXor(a, b) == BitXor(a, b, 8)

\* ProcessBlock on the caller's thread: output is input xor keystream
CSequential(c, Input) ==
    LET XorWith(g) == [Output |-> [n \in 1..Len(Input) |-> ByteXor(Input[n], g.ks[n])],
                       Counter |-> g.Counter]
    IN  XorWith(Generate(c.key, Len(Input), c._ctrVector))

\* ProcessBlock with the counter range split across the threads: thread i
\* moves a copy of the counter on by i chunks and generates its chunk; what
\* is left over after the chunks is generated from the last thread's counter
CParallel(c, Input) ==
    LET blocks == Len(Input) \div CBlock
        cnkSize == (blocks \div ProcessorCount) * CBlock
        rndSize == cnkSize * ProcessorCount
        subSize == cnkSize \div CBlock
        thread == [i \in 0..(ProcessorCount - 1) |->
                      Generate(c.key, cnkSize, Increase(c._ctrVector, subSize * i))]
        final == Generate(c.key, Len(Input) - rndSize,
                          thread[ProcessorCount - 1].Counter)
    IN  [Output |-> [n \in 1..Len(Input) |->
                        IF n <= rndSize
                        THEN ByteXor(Input[n], thread[(n - 1) \div cnkSize]
                                                   .ks[((n - 1) % cnkSize) + 1])
                        ELSE ByteXor(Input[n], final.ks[n - rndSize])],
         Counter |-> final.Counter]

\* ParallelMinimumSize(): one block for each thread
CParallelMinimumSize == ProcessorCount * CBlock

\* does Transform take the parallel path
CEngages(c, Length) == c._isParallel /\ Length >= c._parallelBlockSize

\* After construction by ChaCha(Rounds)
CInit ==
    /\ CoreOff
    /\ SkeinOff /\ MacOff /\ ISCOff /\ KDFOff /\ RngOff /\ PadOff
    /\ chacha = [key |-> 0, _ctrVector |-> <<0, 0>>, _isInitialized |-> FALSE,
                 _isParallel |-> FALSE, _parallelBlockSize |-> 2 * CParallelMinimumSize,
                 last |-> [op |-> "none"], enc |-> [valid |-> FALSE]]

\* Initialize(KeyParam): the key and IV are set and the counter starts at zero
CInitialize ==
    /\ UNCHANGED <<kvars, wvars, pfvars, mvars, rvars, skein, mac, isc, kdf, rng, pad>>
    /\ \E key \in 0..MaxKey :
          chacha' = [chacha EXCEPT
              !.key = key,
              !._ctrVector = <<0, 0>>,
              !._isInitialized = TRUE,
              !.last = [op |-> "Initialize"],
              !.enc = IF chacha.enc.valid /\ chacha.enc.stage = "encrypted"
                         /\ key = chacha.enc.key
                      THEN [chacha.enc EXCEPT !.stage = "initialized"]
                      ELSE [valid |-> FALSE]]

\* IsParallel() = flag and ParallelBlockSize() = size, a multiple of
\* ParallelMinimumSize()
CSetParallel ==
    /\ UNCHANGED <<kvars, wvars, pfvars, mvars, rvars, skein, mac, isc, kdf, rng, pad>>
    /\ \E flag \in BOOLEAN, k \in 1..2 :
          chacha' = [chacha EXCEPT
              !._isParallel = flag,
              !._parallelBlockSize = k * CParallelMinimumSize]

\* the data passed to Transform: every length up to two parallel blocks and
\* a partial block, or the text encrypted before
CData(seed, Length) == [n \in 1..Length |-> (seed * 7 + n * n * 3 + 1) % 256]

CInputs ==
    {CData(seed, Length) : seed \in 0..MaxSeed,
                           Length \in 1..(2 * CParallelMinimumSize + 1)}
        \cup (IF chacha.enc.valid THEN {chacha.enc.C} ELSE {})

\* Transform(Input, Output)
CTransform ==
    /\ UNCHANGED <<kvars, wvars, pfvars, mvars, rvars, skein, mac, isc, kdf, rng, pad>>
    /\ chacha._isInitialized
    /\ \E Input \in CInputs :
          LET parallel == CEngages(chacha, Len(Input))
          IN  \E r \in {IF parallel THEN CParallel(chacha, Input)
                        ELSE CSequential(chacha, Input)} :
                 chacha' = [chacha EXCEPT
                     !._ctrVector = r.Counter,
                     !.last = [op |-> "Transform", Input |-> Input,
                               Output |-> r.Output, parallel |-> parallel,
                               key |-> chacha.key, Counter |-> chacha._ctrVector],
                     !.enc = IF chacha.last.op = "Initialize" /\ ~parallel
                             THEN [valid |-> TRUE, stage |-> "encrypted", P |-> Input,
                                   C |-> r.Output, key |-> chacha.key]
                             ELSE IF /\ chacha.enc.valid
                                     /\ chacha.enc.stage = "initialized"
                                     /\ chacha.last.op = "Initialize"
                                     /\ Input = chacha.enc.C
                                     /\ parallel
                                     /\ chacha._parallelBlockSize = Len(Input)
                             THEN [chacha.enc EXCEPT !.stage = "decrypted"]
                             ELSE [valid |-> FALSE]]

CNext == CInitialize \/ CSetParallel \/ CTransform

SpecChaCha == CInit /\ [][CNext]_vars

SkZeros == [j \in 1..SkBlock |-> 0]

\* UbiTweak::StartNewBlockType: no bits processed, the block type, first
\* block set, final block clear
StartNewBlockType(type) ==
    [type |-> type, bits |-> 0, first |-> TRUE, final |-> FALSE]

\* Threefish1024 keyed by the state under the tweak, applied to the cipher
\* input, with the feed-forward of the input
SkMix(state, tweak, input) ==
    LET RECURSIVE Fold(_)
        Fold(j) == IF j = 0 THEN 0 ELSE (j + 2) * input[j] + 3 * Fold(j - 1)
    IN  (5 * state + Fold(SkBlock) + 7 * tweak.bits
         + (IF tweak.type = "Message" THEN 11 ELSE 29)
         + (IF tweak.first THEN 13 ELSE 0) + (IF tweak.final THEN 17 ELSE 0) + 1) % 251

\* Skein1024::ProcessBlock(bytes)
SkProcessBlock(d, bytes) ==
    LET tweak == [d._ubiParameters EXCEPT !.bits = @ + bytes]
    IN  [d EXCEPT !._ubiParameters = tweak,
                  !._digestState = SkMix(d._digestState, tweak, d._cipherInput)]

\* an Initialize() that leaves the fill count of the input buffer
SkInitializeKeepsFill(d) ==
    [d EXCEPT !._digestState = d._configValue,
              !._ubiParameters = StartNewBlockType("Message")]

\* Skein1024::Initialize(): the configuration value becomes the state, the
\* tweak starts a message, the input buffer counts as empty
SkInitialize(d) ==
    [d EXCEPT !._digestState = d._configValue,
              !._ubiParameters = StartNewBlockType("Message"),
              !._bytesFilled = 0]

\* Skein1024::BlockUpdate(Input, 0, Input.size()): byte by byte, with a
\* transform when a byte arrives at a full input buffer
RECURSIVE SkBlockUpdate(_, _, _)
SkBlockUpdate(d, Input, bytesDone) ==
    IF bytesDone >= Len(Input) THEN d
    ELSE LET t == IF d._bytesFilled = SkBlock
                  THEN [SkProcessBlock([d EXCEPT !._cipherInput = d._inputBuffer],
                                       SkBlock)
                           EXCEPT !._ubiParameters.first = FALSE,
                                  !._bytesFilled = 0]
                  ELSE d
             Store(e) == [e EXCEPT !._inputBuffer[e._bytesFilled + 1] =
                                        Input[bytesDone + 1],
                                   !._bytesFilled = @ + 1]
         IN  SkBlockUpdate(Store(t), Input, bytesDone + 1)

\* Skein1024::DoFinal(Output, 0): the final message block, then one output
\* block in counter mode from the saved state
SkDoFinal(d) ==
    LET padded == [j \in 1..SkBlock |->
                      IF j <= d._bytesFilled THEN d._inputBuffer[j] ELSE 0]
        OutBlock(m) ==
            LET o == SkProcessBlock(
                         [m EXCEPT !._cipherInput = SkZeros,
                                   !._ubiParameters =
                                       [StartNewBlockType("Out") EXCEPT !.final = TRUE]],
                         8)
            IN  [d |-> [o EXCEPT !._digestState = m._digestState,
                                 !._cipherInput[1] = @ + 1],
                 Output |-> o._digestState]
    IN  OutBlock(SkProcessBlock(
            [d EXCEPT !._inputBuffer = padded,
                      !._cipherInput = padded,
                      !._ubiParameters.final = TRUE],
            d._bytesFilled))

\* Skein1024::ComputeHash: BlockUpdate, DoFinal and Reset
SkComputeHash(d, Input) ==
    LET Returned(f) == [d |-> SkInitialize(f.d), Output |-> f.Output]
    IN  Returned(SkDoFinal(SkBlockUpdate(d, Input, 0)))

\* the instance after construction: the configuration value is generated
\* and Initialize() is called
SkConstructed ==
    SkInitialize([_configValue |-> 9, _digestState |-> 0,
                  _ubiParameters |-> [type |-> "None", bits |-> 0,
                                      first |-> FALSE, final |-> FALSE],
                  _bytesFilled |-> 0, _inputBuffer |-> SkZeros,
                  _cipherInput |-> SkZeros])

\* the messages: every length up to two blocks and a byte
SkData(seed, Length) == [n \in 1..Length |-> (seed * 3 + n * n + 1) % 4]

SkMessages ==
    {SkData(seed, Length) : seed \in 0..MaxSeed, Length \in 0..(2 * SkBlock + 1)}

\* what BlockUpdate and ComputeHash are passed: the rest of a message that
\* starts with what was passed before
SkInputs ==
    {SubSeq(m, Len(skein.x) + 1, Len(m)) :
        m \in {n \in SkMessages : /\ Len(n) >= Len(skein.x)
                                  /\ SubSeq(n, 1, Len(skein.x)) = skein.x}}

\* skein.d is the instance; skein.x is what was passed since the instance
\* was last reset, skein.dirty tells that a DoFinal was made since, and
\* skein.last is the last digest with the message it was made of
SkInit ==
    /\ CoreOff
    /\ ChaChaOff /\ MacOff /\ ISCOff /\ KDFOff /\ RngOff /\ PadOff
    /\ skein = [d |-> SkConstructed, x |-> <<>>, dirty |-> FALSE,
                last |-> [op |-> "none"]]

SBlockUpdate ==
    /\ UNCHANGED <<kvars, wvars, pfvars, mvars, rvars, chacha, mac, isc, kdf, rng, pad>>
    /\ \E Input \in SkInputs :
          skein' = [skein EXCEPT !.d = SkBlockUpdate(skein.d, Input, 0),
                                    !.x = skein.x \o Input,
                                    !.last = [op |-> "BlockUpdate"]]

SDoFinal ==
    /\ UNCHANGED <<kvars, wvars, pfvars, mvars, rvars, chacha, mac, isc, kdf, rng, pad>>
    /\ \E f \in {SkDoFinal(skein.d)} :
          skein' = [skein EXCEPT !.d = f.d,
                                 !.dirty = TRUE,
                                 !.last = [op |-> "DoFinal", x |-> skein.x,
                                           Output |-> f.Output,
                                           dirty |-> skein.dirty]]

SReset ==
    /\ UNCHANGED <<kvars, wvars, pfvars, mvars, rvars, chacha, mac, isc, kdf, rng, pad>>
    /\ skein' = [skein EXCEPT !.d = SkInitialize(skein.d),
                              !.x = <<>>,
                              !.dirty = FALSE,
                              !.last = [op |-> "Reset",
                                        after |-> skein.last.op]]

SComputeHash ==
    /\ UNCHANGED <<kvars, wvars, pfvars, mvars, rvars, chacha, mac, isc, kdf, rng, pad>>
    /\ \E Input \in SkInputs :
          \E c \in {SkComputeHash(skein.d, Input)} :
                skein' = [skein EXCEPT !.d = c.d,
                                       !.x = <<>>,
                                       !.dirty = FALSE,
                                       !.last = [op |-> "ComputeHash",
                                                 x |-> skein.x \o Input,
                                                 Output |-> c.Output,
                                                 dirty |-> skein.dirty,
                                                 after |-> skein.last.op]]

SkNext == SBlockUpdate \/ SDoFinal \/ SReset \/ SComputeHash

SpecSkein == SkInit /\ [][SkNext]_vars

\* the fields of the instance that later hashing reads before it writes them
SkLive(d) == <<d._digestState, d._ubiParameters, d._bytesFilled, d._configValue>>

\* C23: a digest made by DoFinal or ComputeHash on an instance that was
\* reset since its last DoFinal is the digest a new instance gives for the
\* same message, so ComputeHash(x) after BlockUpdate(x), DoFinal, Reset gives
\* the same digest again; and after Reset and after ComputeHash the instance
\* is, for all later hashing, in its state after construction.
C23_ResetRestoresInitialState ==
    /\ (skein.last.op \in {"DoFinal", "ComputeHash"} /\ ~skein.last.dirty) =>
          skein.last.Output = SkDoFinal(SkBlockUpdate(SkConstructed, skein.last.x, 0)).Output
    /\ skein.last.op \in {"Reset", "ComputeHash"} =>
          SkLive(skein.d) = SkLive(SkConstructed)

\* ComputeHash of a message of more than two blocks right after a Reset that
\* followed a DoFinal
C23_Witness ==
    /\ skein.last.op = "ComputeHash"
    /\ skein.last.after = "Reset"
    /\ ~skein.last.dirty
    /\ Len(skein.last.x) = 2 * SkBlock + 1
    /\ skein.d._cipherInput # SkZeros

(***************************************************************************)
(* MacStream                                                               *)
(***************************************************************************)
\* a - b in unsigned int arithmetic
USub(a, b) == (a - b + 2 ^ UIntBits) % (2 ^ UIntBits)

\* the check ComputeMac(Input, InOffset, Length) makes before it computes
ComputeMacThrows(size, InOffset, Length) ==
    USub(Length, InOffset) < 1 \/ USub(Length, InOffset) > size

\* the offsets of Input that Compute(Input, InOffset, Length) passes to
\* BlockUpdate, in order: whole blocks while bytesTotal != alnBlocks, then
\* the last Length - bytesTotal bytes
RECURSIVE MacCompute(_, _, _, _)
MacCompute(InOffset, Length, bytesTotal, read) ==
    LET alnBlocks == (Length \div MacBlock) * MacBlock
        Block(n) == [j \in 1..n |-> InOffset + j - 1]
    IN  IF bytesTotal # alnBlocks
        THEN MacCompute(InOffset + MacBlock, Length, bytesTotal + MacBlock,
                        read \o Block(MacBlock))
        ELSE IF bytesTotal # Length
        THEN read \o Block(Length - bytesTotal)
        ELSE read

\* After construction by MacStream(Mac) with an initialized MAC
MacInit ==
    /\ CoreOff
    /\ ChaChaOff /\ SkeinOff /\ ISCOff /\ KDFOff /\ RngOff /\ PadOff
    /\ mac = [_blockSize |-> MacBlock, last |-> [op |-> "none"]]

\* ComputeMac(Input, InOffset, Length).  A BlockUpdate whose range leaves
\* Input reads memory that is not Input's: the engine may notice and throw
\* its own exception, the process may end, or the MAC is made of whatever
\* was there.
MacComputeMac ==
    /\ UNCHANGED <<kvars, wvars, pfvars, mvars, rvars, chacha, skein, isc, kdf, rng, pad>>
    /\ \E size \in 0..MaxVector, InOffset \in 0..(MaxVector + 1),
          Length \in 0..(MaxVector + 1) :
          IF ComputeMacThrows(size, InOffset, Length)
          THEN mac' = [mac EXCEPT !.last =
                          [op |-> "ComputeMac", size |-> size, InOffset |-> InOffset,
                           Length |-> Length, error |-> "CryptoProcessingException",
                           read |-> <<>>]]
          ELSE \E read \in {MacCompute(InOffset, Length, 0, <<>>)} :
                  \E outcome \in IF \E j \in 1..Len(read) : read[j] >= size
                                 THEN {"engine exception", "terminated", "none"}
                                 ELSE {"none"} :
                     mac' = [mac EXCEPT !.last =
                                [op |-> "ComputeMac", size |-> size,
                                 InOffset |-> InOffset, Length |-> Length,
                                 error |-> outcome, read |-> read]]

SpecMacStream == MacInit /\ [][MacComputeMac]_vars

\* C24: ComputeMac(Input, InOffset, Length) throws CryptoProcessingException
\* whenever InOffset + Length is longer than Input and when Length is zero;
\* otherwise it passes exactly the bytes at offsets InOffset .. InOffset +
\* Length - 1 to the MAC, in order, and it never reads outside Input.
C24_ComputeMacChecksRange ==
    mac.last.op = "ComputeMac" =>
        /\ (mac.last.InOffset + mac.last.Length > mac.last.size \/ mac.last.Length = 0)
              => mac.last.error = "CryptoProcessingException"
        /\ (mac.last.InOffset + mac.last.Length <= mac.last.size /\ mac.last.Length > 0)
              => /\ mac.last.error = "none"
                 /\ mac.last.read = [j \in 1..mac.last.Length |->
                                        mac.last.InOffset + j - 1]
        /\ \A j \in 1..Len(mac.last.read) : mac.last.read[j] < mac.last.size

(***************************************************************************)
(* ISCRsg                                                                  *)
(***************************************************************************)
\* the number of words of the generator's state: 1 << SIZE64
MSIZE == 256

\* the test the constructor makes of the seed: smaller than 1 and larger
\* than 256 at once
ISCConstructThrows(size) == size < 1 /\ size > 256

\* the seed lengths passed to the constructor
SeedSizes == 0..(MSIZE + 4)

\* before the generator is constructed
ISCInit ==
    /\ CoreOff
    /\ ChaChaOff /\ SkeinOff /\ MacOff /\ KDFOff /\ RngOff /\ PadOff
    /\ isc = [op |-> "none"]

\* ISCRsg(Seed): the test, then len = min(Seed.size(), MSIZE) values are
\* copied from &Seed[0] and the state is initialized.  Taking Seed[0] of an
\* empty vector is outside the vector: the copy of no bytes goes through or
\* the process is ended.
ISCConstruct ==
    /\ UNCHANGED <<kvars, wvars, pfvars, mvars, rvars, chacha, skein, mac, kdf, rng, pad>>
    /\ \E size \in SeedSizes :
          IF ISCConstructThrows(size)
          THEN isc' = [op |-> "Construct", size |-> size,
                       error |-> "CryptoRandomException", constructed |-> FALSE,
                       len |-> 0]
          ELSE \E outcome \in IF size = 0 THEN {"none", "terminated"} ELSE {"none"} :
                  isc' = [op |-> "Construct", size |-> size, error |-> outcome,
                          constructed |-> outcome = "none",
                          len |-> IF size > MSIZE THEN MSIZE ELSE size]

SpecISC == ISCInit /\ [][ISCConstruct]_vars

\* C25: the ISCRsg constructor throws CryptoRandomException for an empty
\* seed and for a seed of more than 256 values, and constructs a generator
\* only for seed lengths from 1 to 256.
C25_SeedLengthChecked ==
    isc.op = "Construct" =>
        /\ (isc.size = 0 \/ isc.size > 256) => isc.error = "CryptoRandomException"
        /\ isc.constructed => isc.size \in 1..256

(***************************************************************************)
(* KDF2Drbg                                                                *)
(***************************************************************************)
\* the digests behind the generator, output size H and block size S at 1/16
\* of their bytes: SHA256 (32, 64), SHA512 (64, 128), Skein256 (32, 32)
Kdf2Digests ==
    {[name |-> "SHA256", H |-> 2, S |-> 4],
     [name |-> "SHA512", H |-> 4, S |-> 8],
     [name |-> "Skein256", H |-> 2, S |-> 2]}

\* the offsets o .. o + n - 1 in order
Range(o, n) == [j \in 1..n |-> o + j - 1]

\* the test Generate(Output, OutOffset, Size) makes: Output.size() - Size is
\* unsigned
GenerateThrows(size, OutOffset, Size) == USub(size, Size) < OutOffset

\* GenerateKey(Output, OutOffset, Size): the offsets of Output written, one
\* digest at a time
RECURSIVE GenerateKey(_, _, _, _, _)
GenerateKey(hashSize, OutOffset, Size, i, written) ==
    IF i = 0 THEN written
    ELSE IF Size > hashSize
    THEN GenerateKey(hashSize, OutOffset + hashSize, Size - hashSize, i - 1,
                     written \o Range(OutOffset, hashSize))
    ELSE GenerateKey(hashSize, OutOffset, Size, i - 1,
                     written \o Range(OutOffset, Size))

\* Initialize(Salt) for a Salt of size bytes that is not refused: the offsets
\* of Salt copied to _Salt and to _IV
InitializeReads(d, size) ==
    IF size < d.S + d.H
    THEN [Salt |-> Range(0, size), IV |-> <<>>]
    ELSE [Salt |-> Range(0, size - d.H), IV |-> Range(size - d.H, d.S)]

\* After construction by KDF2Drbg(Digest)
KdfInit ==
    /\ CoreOff
    /\ ChaChaOff /\ SkeinOff /\ MacOff /\ ISCOff /\ RngOff /\ PadOff
    /\ \E d \in Kdf2Digests :
          kdf = [_hashSize |-> d.H, _blockSize |-> d.S, _Salt |-> <<>>, _IV |-> <<>>,
                 _isInitialized |-> FALSE, last |-> [op |-> "none"]]

\* does a sequence of offsets leave a vector of size bytes
Outside(offsets, size) == \E j \in 1..Len(offsets) : offsets[j] >= size

\* what a call that accessed memory outside a vector ends with
AfterOutside(outside) == IF outside THEN {"none", "terminated"} ELSE {"none"}

\* KDF2Drbg::Initialize(Salt)
KdfInitialize ==
    /\ UNCHANGED <<kvars, wvars, pfvars, mvars, rvars, chacha, skein, mac, isc, rng, pad>>
    /\ \E size \in 0..(kdf._blockSize + kdf._hashSize + 2) :
          IF size < kdf._hashSize
          THEN kdf' = [kdf EXCEPT !.last =
                          [op |-> "Initialize", size |-> size,
                           error |-> "CryptoGeneratorException", read |-> <<>>]]
          ELSE \E r \in {InitializeReads([H |-> kdf._hashSize, S |-> kdf._blockSize],
                                         size)} :
                  \E outcome \in AfterOutside(Outside(r.Salt \o r.IV, size)) :
                     kdf' = [kdf EXCEPT
                                !._Salt = r.Salt,
                                !._IV = r.IV,
                                !._isInitialized = TRUE,
                                !.last = [op |-> "Initialize", size |-> size,
                                          error |-> outcome, read |-> r.Salt \o r.IV]]

\* KDF2Drbg::Generate(Output, OutOffset, Size)
KdfGenerate ==
    /\ UNCHANGED <<kvars, wvars, pfvars, mvars, rvars, chacha, skein, mac, isc, rng, pad>>
    /\ \E size \in 0..MaxVector, OutOffset \in 0..(MaxVector + 1),
          Size \in 0..(MaxVector + 2) :
          IF GenerateThrows(size, OutOffset, Size)
          THEN kdf' = [kdf EXCEPT !.last =
                          [op |-> "Generate", size |-> size, OutOffset |-> OutOffset,
                           Size |-> Size, error |-> "CryptoGeneratorException",
                           written |-> <<>>]]
          ELSE \E w \in {GenerateKey(kdf._hashSize, OutOffset, Size,
                                     (Size + kdf._hashSize - 1) \div kdf._hashSize,
                                     <<>>)} :
                  \E outcome \in AfterOutside(Outside(w, size)) :
                     kdf' = [kdf EXCEPT !.last =
                                [op |-> "Generate", size |-> size,
                                 OutOffset |-> OutOffset, Size |-> Size,
                                 error |-> outcome, written |-> w]]

KdfNext == KdfInitialize \/ KdfGenerate

SpecKDF2 == KdfInit /\ [][KdfNext]_vars

\* C27: Generate(Output, OutOffset, Size) throws CryptoGeneratorException
\* whenever OutOffset + Size > Output.size(), also when Size alone is larger
\* than Output; when it does not throw it writes exactly the Size bytes at
\* OutOffset .. OutOffset + Size - 1, all inside Output.
C27_GenerateChecksRange ==
    kdf.last.op = "Generate" =>
        /\ kdf.last.OutOffset + kdf.last.Size > kdf.last.size
              => kdf.last.error = "CryptoGeneratorException"
        /\ kdf.last.error # "CryptoGeneratorException" =>
              /\ kdf.last.written = Range(kdf.last.OutOffset, kdf.last.Size)
              /\ ~Outside(kdf.last.written, kdf.last.size)

\* C28: Initialize(Salt) with a Salt of at least the digest output size
\* copies to the internal salt and IV only bytes at offsets inside Salt, also
\* the S IV bytes read from offset |Salt| - H when |Salt| >= S + H.
C28_InitializeReadsInsideSalt ==
    (kdf.last.op = "Initialize" /\ kdf.last.size >= kdf._hashSize) =>
        /\ kdf.last.error = "none"
        /\ ~Outside(kdf.last.read, kdf.last.size)

(***************************************************************************)
(* PBR and SecureRandom                                                    *)
(***************************************************************************)
\* size of the byte buffer of a generator
BufferSize == 3
\* most bytes one generator hands out
MaxHanded == 24

\* the underlying generator fills the buffer: its g-th buffer, every byte
\* named by its position in the generator's output
RngGenerate(g) == Range(g * BufferSize + 1, BufferSize)

\* a copy that restarts at the head of the buffer
TakeFromStart(buffer, index, n) == SubSeq(buffer, 1, n)

\* memcpy(&Output[..], &buffer[index], n)
Take(buffer, index, n) == SubSeq(buffer, index + 1, index + n)

\* Reset(): a first buffer from the generator, nothing of it handed out
RngReset(kind) ==
    [kind |-> kind, _byteBuffer |-> RngGenerate(0), _bufferIndex |-> 0,
     generated |-> 1, handed |-> <<>>, last |-> [op |-> "Reset"]]

\* the loop of GetBytes: refill the buffer and copy until rem is 0
RECURSIVE Refill(_, _, _)
Refill(r, Output, rem) ==
    IF rem = 0 THEN [r |-> r, Output |-> Output]
    ELSE LET filled == [r EXCEPT !._byteBuffer = RngGenerate(r.generated),
                                 !.generated = r.generated + 1]
         IN  IF rem > Len(filled._byteBuffer)
             THEN Refill(filled,
                         Output \o Take(filled._byteBuffer, 0, Len(filled._byteBuffer)),
                         rem - Len(filled._byteBuffer))
             ELSE Refill([filled EXCEPT !._bufferIndex = rem],
                         Output \o Take(filled._byteBuffer, 0, rem), 0)

\* GetBytes(Output) for a non-empty Output of size bytes
GetBytes(r, size) ==
    IF Len(r._byteBuffer) - r._bufferIndex < size
    THEN LET bufSize == Len(r._byteBuffer) - r._bufferIndex
         IN  Refill(r, Take(r._byteBuffer, r._bufferIndex, bufSize), size - bufSize)
    ELSE [r |-> [r EXCEPT !._bufferIndex = r._bufferIndex + size],
          Output |-> Take(r._byteBuffer, r._bufferIndex, size)]

\* After construction of either generator
RngInit ==
    /\ CoreOff
    /\ ChaChaOff /\ SkeinOff /\ MacOff /\ ISCOff /\ KDFOff /\ PadOff
    /\ \E kind \in {"PBR", "SecureRandom"} : rng = RngReset(kind)

\* PBR::GetBytes(Output), SecureRandom::GetBytes(Output)
RngGetBytes ==
    /\ UNCHANGED <<kvars, wvars, pfvars, mvars, rvars, chacha, skein, mac, isc, kdf, pad>>
    /\ \E size \in 0..(2 * BufferSize + 2) :
          /\ Len(rng.handed) + size <= MaxHanded
          /\ LET before == [_byteBuffer |-> rng._byteBuffer,
                            _bufferIndex |-> rng._bufferIndex,
                            generated |-> rng.generated]
             IN  IF size = 0
                 THEN rng' = [rng EXCEPT !.last =
                                 [op |-> "GetBytes", size |-> size,
                                  error |-> "CryptoRandomException",
                                  Output |-> <<>>, before |-> before]]
                 ELSE \E g \in {GetBytes(rng, size)} :
                         rng' = [g.r EXCEPT
                                    !.handed = rng.handed \o g.Output,
                                    !.last = [op |-> "GetBytes", size |-> size,
                                              error |-> "none", Output |-> g.Output,
                                              before |-> before]]

SpecRng == RngInit /\ [][RngGetBytes]_vars

\* C29: the bytes GetBytes has handed out so far are the generator's output
\* in order from its first byte, none skipped and none repeated; the bytes
\* generated and not yet handed out are the rest of the buffer from the
\* buffer index, which lies in 0 .. buffer size; a call fills its whole
\* Output; a call with an empty Output throws and changes nothing.
C29_HandsOutGeneratorStream ==
    /\ rng.handed = Range(1, Len(rng.handed))
    /\ rng._bufferIndex >= 0
    /\ rng._bufferIndex <= Len(rng._byteBuffer)
    /\ rng._byteBuffer = RngGenerate(rng.generated - 1)
    /\ Len(rng.handed) + (Len(rng._byteBuffer) - rng._bufferIndex)
          = rng.generated * BufferSize
    /\ rng.last.op = "GetBytes" =>
          IF rng.last.size = 0
          THEN /\ rng.last.error = "CryptoRandomException"
               /\ rng._byteBuffer = rng.last.before._byteBuffer
               /\ rng._bufferIndex = rng.last.before._bufferIndex
               /\ rng.generated = rng.last.before.generated
          ELSE /\ rng.last.error = "none"
               /\ Len(rng.last.Output) = rng.last.size

C29_Witness ==
    /\ rng.last.op = "GetBytes"
    /\ rng.last.size > 2 * BufferSize
    /\ rng.last.before._bufferIndex \in 1..(BufferSize - 1)
    /\ rng._bufferIndex \in 1..(BufferSize - 1)
    /\ rng.generated >= 5

(***************************************************************************)
(* ZeroPad                                                                 *)
(***************************************************************************)
\* the caller's buffers: up to MaxVector bytes, each zero or not (1)
Buffers == UNION {[1..n -> {0, 1}] : n \in 0..MaxVector}

\* AddPadding(Input, Offset) for Offset <= Input.size(): the buffer and the
\* Offset the loop ends with, and the value returned
RECURSIVE AddPadding(_, _)
AddPadding(Input, Offset) ==
    IF Offset < Len(Input)
    THEN AddPadding([Input EXCEPT ![Offset + 1] = 0], Offset + 1)
    ELSE [Input |-> Input, returned |-> USub(Len(Input), Offset)]

\* the loop of GetPaddingLength(Input) from index i down, Input not empty
RECURSIVE PaddingScan(_, _, _)
PaddingScan(Input, len, i) ==
    IF i > 0
    THEN IF Input[i + 1] # 0 THEN len - i ELSE PaddingScan(Input, len, i - 1)
    ELSE 0

\* GetPaddingLength(Input): the ways it can end.  For an empty Input len
\* wraps around and the loop reads outside the buffer from its first step.
GetPaddingLength(Input) ==
    IF Len(Input) = 0
    THEN {[error |-> "terminated", returned |-> 0]}
            \cup {[error |-> "none", returned |-> n] : n \in 0..MaxVector}
    ELSE {[error |-> "none",
           returned |-> PaddingScan(Input, Len(Input) - 1, Len(Input) - 1)]}

\* ZeroPad() keeps no state; the buffer is the caller's
PadInit ==
    /\ CoreOff
    /\ ChaChaOff /\ SkeinOff /\ MacOff /\ ISCOff /\ KDFOff /\ RngOff
    /\ \E Input \in Buffers :
          pad = [Input |-> Input, added |-> [op |-> "none"], got |-> [op |-> "none"]]

\* ZeroPad::AddPadding(Input, Offset) on the caller's buffer
PadAddPadding ==
    /\ UNCHANGED <<kvars, wvars, pfvars, mvars, rvars, chacha, skein, mac, isc, kdf, rng>>
    /\ \E Offset \in 0..(MaxVector + 1) :
          IF Offset > Len(pad.Input)
          THEN pad' = [pad EXCEPT
                          !.added = [op |-> "AddPadding", Offset |-> Offset,
                                     error |-> "CryptoPaddingException",
                                     before |-> pad.Input],
                          !.got = [op |-> "none"]]
          ELSE \E a \in {AddPadding(pad.Input, Offset)} :
                  pad' = [Input |-> a.Input,
                          added |-> [op |-> "AddPadding", Offset |-> Offset,
                                     error |-> "none", before |-> pad.Input,
                                     returned |-> a.returned],
                          got |-> [op |-> "none"]]

\* ZeroPad::GetPaddingLength(Input) on the caller's buffer
PadGetPaddingLength ==
    /\ UNCHANGED <<kvars, wvars, pfvars, mvars, rvars, chacha, skein, mac, isc, kdf, rng>>
    /\ \E r \in GetPaddingLength(pad.Input) :
          pad' = [pad EXCEPT !.got = [op |-> "GetPaddingLength", error |-> r.error,
                                      returned |-> r.returned]]

PadNext == PadAddPadding \/ PadGetPaddingLength

SpecZeroPad == PadInit /\ [][PadNext]_vars

\* C30: after AddPadding(Input, Offset) on a non-empty buffer with
\* 1 <= Offset <= size whose byte at Offset - 1 is not zero, the bytes from
\* Offset on are zero, AddPadding has returned size - Offset, and
\* GetPaddingLength(Input) returns size - Offset.
C30_ZeroPadRoundTrip ==
    (/\ pad.added.op = "AddPadding"
     /\ pad.added.Offset >= 1
     /\ pad.added.Offset <= Len(pad.added.before)
     /\ pad.added.before[pad.added.Offset] # 0) =>
        /\ pad.added.error = "none"
        /\ Len(pad.Input) = Len(pad.added.before)
        /\ \A j \in 1..Len(pad.Input) :
              pad.Input[j] = IF j > pad.added.Offset THEN 0 ELSE pad.added.before[j]
        /\ pad.added.returned = Len(pad.Input) - pad.added.Offset
        /\ pad.got.op = "GetPaddingLength" =>
              pad.got.returned = Len(pad.Input) - pad.added.Offset

(***************************************************************************)
(* RHX                                                                     *)
(***************************************************************************)
\* C18: after Initialize for encryption, Transform of P to C, Initialize of
\* the same instance for decryption with the same key and Transform of C,
\* the output is P, for every legal key, both block widths and the rounds of
\* either path; and under one key two different blocks never encrypt to the
\* same block.
C18_DecryptOfEncrypt ==
    /\ (renc.valid /\ renc.stage = "decrypted") =>
          (rlast.op = "Transform" /\ rlast.Input = renc.C /\ rlast.Output = renc.P)
    /\ (renc.valid /\ renc.stage = "encrypted") =>
          \A seed \in 0..MaxSeed :
             LET Q == RPlain(seed, rhx._blockSize)
             IN  Q # renc.P => EncryptBlock(rhx, Q) # renc.C

\* the round trip was made with 32-byte blocks under an HKDF key with the
\* most rounds
C18_Witness ==
    /\ renc.valid
    /\ renc.stage = "decrypted"
    /\ rhx._blockSize = BLOCK32
    /\ rhx._expKey.path = "hkdf"
    /\ rhx._expKey.rounds = MAX_ROUNDS
    /\ renc.C # renc.P

\* the legal set of the claim for the digest of the instance
LegalSet(r) ==
    {16, 24, 32, 64} \cup
        {r._kdfEngineType.H + n * r._kdfEngineType.S : n \in 1..10}

C20_PathByLength ==
    rlast.op = "Initialize" =>
        LET HS == rhx._kdfEngineType.H + rhx._kdfEngineType.S
        IN  /\ rlast.Length = 64 =>
                  (rlast.error = "none" /\ rhx._expKey.path = "standard")
            /\ rlast.Length = 65 => rlast.error = "InvalidKey"
            /\ (rlast.Length = HS /\ HS > 64) =>
                  (rlast.error = "none" /\ rhx._expKey.path = "hkdf")

\* a key of H + S bytes took the HKDF path
C20_Witness ==
    /\ rlast.op = "Initialize"
    /\ rlast.error = "none"
    /\ rlast.Length = rhx._kdfEngineType.H + rhx._kdfEngineType.S
    /\ rhx._expKey.path = "hkdf"

\* C20 as stated: for every digest, 64 bytes take the standard path, 65
\* bytes fail and H + S bytes take the HKDF path.
C20_AsStated ==
    rlast.op = "Initialize" =>
        LET HS == rhx._kdfEngineType.H + rhx._kdfEngineType.S
        IN  /\ rlast.Length = 64 =>
                  (rlast.error = "none" /\ rhx._expKey.path = "standard")
            /\ rlast.Length = 65 => rlast.error = "InvalidKey"
            /\ rlast.Length = HS =>
                  (rlast.error = "none" /\ rhx._expKey.path = "hkdf")

\* C21: constructing an RHX succeeds exactly when BlockSize is 16 or 32 and
\* Rounds is an even number from 10 to 38; otherwise the constructor throws
\* and no instance exists, and a wrong block size is reported before wrong
\* rounds.
C21_ConstructorChecks ==
    rlast.op = "Construct" =>
        LET sizeOk == rlast.BlockSize \in {16, 32}
            roundsOk == rlast.Rounds \in {r \in 10..38 : r % 2 = 0}
        IN  /\ rlast.error = "none" <=> (sizeOk /\ roundsOk)
            /\ rlast.error = "none" =>
                  /\ rhx # <<>>
                  /\ rhx._blockSize = rlast.BlockSize
                  /\ rhx._dfnRounds = rlast.Rounds
                  /\ ~rhx._isInitialized
            /\ rlast.error # "none" => rhx = <<>>
            /\ ~sizeOk => rlast.error = "Invalid block size"
            /\ (sizeOk /\ ~roundsOk) => rlast.error = "Invalid rounds size"

\* a construction with a wrong block size and odd rounds was refused
C21_Witness ==
    /\ rlast.op = "Construct"
    /\ rlast.BlockSize = 24
    /\ rlast.Rounds = 11
    /\ rlast.error = "Invalid block size"
    /\ rhx = <<>>

(***************************************************************************)
(* Keccak256, fan-out mode: the message in pieces                          *)
(***************************************************************************)
\* the buffer and the leaf states have the sizes of the degree
SizedForDegree(k) ==
    /\ Len(k.m_msgBuffer) = k.ParallelMaxDegree * BLOCK_SIZE
    /\ Len(k.m_dgtState) = k.ParallelMaxDegree

\* C26: in fan-out mode with a buffer of D rate blocks, however the message
\* was split over Update calls, every leaf has absorbed the same blocks and
\* the buffer holds the same residual bytes as after one Update of the whole
\* message, and Finalize gives the same leaf states, root and digest.
C26_TreeSplitSameLeaves ==
    /\ (kstat = "ok" /\ keccak.IsParallel /\ SizedForDegree(keccak)) =>
          \E one \in {Update(Reset(keccak), 0, fed)} :
             /\ keccak.m_dgtState = one.m_dgtState
             /\ keccak.m_msgLength = one.m_msgLength
             /\ SubSeq(keccak.m_msgBuffer, 1, keccak.m_msgLength)
                  = SubSeq(one.m_msgBuffer, 1, one.m_msgLength)
    /\ (fin.valid /\ "leaves" \in DOMAIN fin /\ fin.before.IsParallel
           /\ SizedForDegree(fin.before)) =>
          \E one \in {OneShot(fin.before, fin.fed)} :
             /\ fin.leaves = one.leaves
             /\ fin.root = one.root
             /\ fin.Output = one.Output

\* a message of more than D rate blocks and a residue, passed in several
\* pieces and finalized
C26_Witness ==
    /\ fin.valid
    /\ "leaves" \in DOMAIN fin
    /\ fin.before.IsParallel
    /\ SizedForDegree(fin.before)
    /\ fin.parts = 2
    /\ fin.fed > fin.before.ParallelMaxDegree * BLOCK_SIZE
    /\ fin.fed % BLOCK_SIZE # 0
    /\ fin.before.m_msgLength > BLOCK_SIZE

=============================================================================
